---- MODULE Spec2Model ----
(***************************************************************************)
(* A model of the Twitch auto-translate bot: the Bot Core                  *)
(* (twitch_bot.js, TranslateBot) and the Translation Service               *)
(* (translator_advanced.js, AdvancedTranslationService).                   *)
(*                                                                         *)
(* Time is Date.now() in milliseconds.  JavaScript runs one callback at a  *)
(* time; every action below is one run-to-completion step: the code        *)
(* between two awaits (or from an event until the first await).            *)
(*                                                                         *)
(* The specifications of the module share its variables:                   *)
(*   SpecOps   handleMessageSafely / processOperationQueue, the handler's  *)
(*             own work being an opaque asynchronous operation;            *)
(*   SpecCmd   the handlers themselves (handleCommands, handleAutoCommand, *)
(*             handleAutoTranslate, sendMessage, safeExecute, handleError),*)
(*             one chat message at a time;                                 *)
(*   SpecRate  the rate-limited request queue of the Translation Service;  *)
(*   SpecBurst the same queue under a burst of requests;                   *)
(*   SpecTr    the translation commands !ru, !en and !es;                  *)
(*   SpecErr   the error accounting of handleError;                        *)
(*   SpecStop  stop() while operations are under way;                      *)
(*   SpecShell the application shell (main.js) and its Bot Core instances; *)
(*   SpecCache the cache of the Translation Service and its age limit;     *)
(*   SpecFill  the same cache filled up to its size limit;                 *)
(*   SpecDetect the two detectLanguage functions on one text;              *)
(*   SpecQueue the request queue with failing and slow API calls, and      *)
(*             SpecQueueFair, the same with its timers and calls ending;   *)
(*   SpecTranslate translate() of the Translation Service from its call    *)
(*             to its return, and SpecTranslateFair;                       *)
(*   SpecSafe  safeExecute, attempt by attempt;                            *)
(*   SpecRecover the recovery path: handleCriticalError, reconnect(),      *)
(*             start() and stop(), with the events of the client;          *)
(*   SpecSession the same path with the connection lost and restored by    *)
(*             the client, and stop() called by the shell;                 *)
(*   SpecUi    the shell with the status poll of the renderer;             *)
(*   SpecSettings check-settings, save-settings and start-bot over a       *)
(*             credentials file that was written by hand.                  *)
(***************************************************************************)
EXTENDS Integers, Sequences, FiniteSets, TLC

VARIABLES
    now,               \* Date.now()
    \* ---- Bot Core, concurrency control (twitch_bot.js 33-36)
    activeOperations,  \* this.activeOperations: Map operationId -> record
    operationQueue,    \* this.operationQueue: array of {messageObj, operationId}
    immediates,        \* callbacks registered with setImmediate, not yet run
    inHandler,         \* invocations of handleMessageSafely suspended in `await safeExecute`
    nextSeq,           \* number of the next chat message to arrive
    skipped,           \* the queue entries the latest processOperationQueue skipped as stale
    ticks,             \* number of clock steps taken (bounds the behaviours)
    \* ---- Translation Service, rate limiting (translator_advanced.js 13-17)
    requestQueue,      \* this.requestQueue: array of {id, timestamp} (resolve/reject are `settled`)
    isProcessingQueue, \* this.isProcessingQueue
    requestTimes,      \* this.requestTimes: array of dispatch times
    pc,                \* where processQueue is: "idle", "wait", "api", "pace"
    cur,               \* the request processQueue holds while it awaits the API
    wake,              \* the time the pending sleep() of processQueue is due
    pending,           \* the ids of the requests whose promise is neither resolved nor rejected
    settled,           \* what the latest step settled: {id, how}, how "resolved", "timeout" or "rejected"
    nextReq,           \* id of the next request to be enqueued
    dispatchLog,       \* history: the times of the calls to the translation API
    loops,             \* history: the invocations of processQueue that are inside the while loop
    inFlight,          \* history: the calls of the translation API that have not settled
    lastOutcome,       \* history: how the latest call of the API ended, until the loop goes on
    \* ---- Bot Core, handlers (twitch_bot.js 17-31)
    autoTranslateUsers, \* this.autoTranslateUsers: Set of lowercase usernames
    settingsFile,      \* auto_translate_settings.json: NoFile or [users |-> set]
    client,            \* this.client: "null" or "connected"
    isRunning,         \* this.isRunning
    errorCount,        \* this.errorCount
    lastErrorReset,    \* this.lastErrorReset
    recoveries,        \* number of handleCriticalError calls started so far
    op,                \* the operation handleMessageSafely runs under safeExecute, and where it is
    translatorCalls,   \* history: the calls of this.translator.* made for the message of `op`
    sendLog,           \* history: the texts passed to sendMessage for the message of `op`
    trip,              \* history: progress of an `!auto on` / `!auto off` pair from empty membership
    \* ---- Bot Core, translation commands (twitch_bot.js 21, 387-455)
    translationCache,  \* this.translationCache: Map cacheKey -> text, as the sequence of its entries
    cmds,              \* the translation commands received so far, and where the handler of each is
    \* ---- Bot Core, error accounting (twitch_bot.js 55-75)
    windowErrors,      \* history: the errors handled at or after lastErrorReset, resetting one included
    \* ---- Bot Core, stop() (twitch_bot.js 600-633)
    stopPc,            \* where the call of stop() is: "none", "farewell", "returned", "threw"
    stopSaw,           \* history: what stop() found when it cleared up
    \* ---- Application shell (main.js 7-8, 66-240)
    envFile,           \* the credentials file .env: NoEnvFile or its content, a string
    processEnv,        \* process.env: the four TWITCH_* variables
    bot,               \* `bot`: 0 for null, else the number of a Bot Core instance
    botRunning,        \* `botRunning`
    instances,         \* the Bot Core instances constructed so far
    reply,             \* what the latest request to the shell returned
    lastSaved,         \* history: the record of the latest save-settings that succeeded
    \* ---- Translation Service, cache (translator_advanced.js 8-10, 19-25, 97-230)
    cache,             \* this.cache: Map cacheKey -> {value, timestamp}, as the sequence of its entries
    stats,             \* this.stats: translations, cacheHits, errors, cacheEvictions
    apiQueue,          \* the cache keys of the calls of translate() that await the translation API
    lastRead,          \* history: the latest call of translate(), and what it returned at once
    nextCleanup,       \* the time the cache clean-up timer is due next
    \* ---- Language detection (twitch_bot.js 247-266, translator_advanced.js 71-87)
    sample,            \* the text the two detectLanguage functions were last applied to
    detected,          \* what each of them returned for it
    \* ---- Translation Service, translate() (translator_advanced.js 97-155)
    waiting,            \* the calls of translate() that await the request queue, oldest first
    callLog,            \* history: per call of translate(), the error count before it and what it returned
    \* ---- Bot Core, safeExecute (twitch_bot.js 112-130)
    safeCall,          \* the call of safeExecute under way: where it is, and the history of its attempts
    \* ---- Bot Core, recovery (twitch_bot.js 77-110, 578-586)
    recs,               \* the calls of handleCriticalError so far, and where each is
    closing,            \* the clients disconnect() was called on whose 'disconnected' event is still to come
    eventLog,           \* history: per 'error' event of a client, what it met and whether it started a recovery
    \* ---- Renderer, status poll (renderer.js 310-335)
    poll                \* the status poll: the status get-bot-status returned that is still to be shown, and the controls as the latest poll left them

opsVars == <<activeOperations, operationQueue, immediates, inHandler, nextSeq, skipped, ticks>>

rateVars == <<requestQueue, isProcessingQueue, requestTimes, pc, cur, wake, pending, settled, nextReq,
              dispatchLog, loops, inFlight, lastOutcome>>

cmdVars == <<autoTranslateUsers, settingsFile, client, isRunning, errorCount, lastErrorReset,
             recoveries, op, translatorCalls, sendLog, trip>>

trVars == <<translationCache, cmds>>

(* The variables of the specifications that follow the first four *)
errVars == <<windowErrors>>

stopVars == <<stopPc, stopSaw>>

shellVars == <<envFile, processEnv, bot, botRunning, instances, reply, lastSaved>>

svcVars == <<cache, stats, apiQueue, lastRead, nextCleanup>>

detVars == <<sample, detected>>

callVars == <<waiting, callLog>>

safeVars == <<safeCall>>

recVars == <<recs, closing, eventLog>>

uiVars == <<poll>>

moreVars == <<trVars, errVars, stopVars, shellVars, svcVars, detVars, callVars, safeVars, recVars, uiVars>>

vars == <<now, opsVars, rateVars, cmdVars, moreVars>>

----------------------------------------------------------------------------
(* Bounds of the model *)

MaxMessages == 7       \* chat messages that arrive in one behaviour of SpecOps
Viewers == 4           \* of these, the leading messages sent by distinct ordinary viewers
MaxTicks == 2          \* clock steps in one behaviour of SpecOps

MaxRequests == 2       \* translation requests enqueued in one behaviour of SpecRate
MaxTime == 125000      \* SpecRate lets no idle time pass beyond this clock value

(* Program constants *)

maxConcurrentOperations == 5     \* this.maxConcurrentOperations
StaleMessageAge == 30000         \* processOperationQueue: messageAge > 30000

maxRequestsPerMinute == 30       \* this.maxRequestsPerMinute
RateWindow == 60000              \* canMakeRequest: now - 60000 ; getWaitTime: 60000 - ...
StaleRequestAge == 30000         \* processQueue: requestAge > 30000
MinWait == 1000                  \* getWaitTime: Math.max(..., 1000)
PaceDelay == 100                 \* processQueue: await this.sleep(100)

NoRequest == [id |-> 0, timestamp |-> 0]

----------------------------------------------------------------------------
(* Usernames.  A username is the sequence of its pieces between underscores:  *)
(* "alice" is <<word>>, "my_name" is <<word, word>>, "a_5" is <<word, 5>>.    *)
(* A piece is a word (parseInt gives NaN) or a decimal number.                *)

Word(k) == [kind |-> "word", val |-> k]    \* the k-th word of the model's vocabulary
Num(n) == [kind |-> "num", val |-> n]

Alice == <<Word(0)>>               \* "alice"
MyName == <<Word(1), Word(2)>>     \* "my_name"
A5 == <<Word(3), Num(5)>>          \* "a_5"
Viewer(k) == <<Word(10 + k)>>      \* "viewer1", "viewer2", ...

Usernames == {Alice, MyName, A5}

(* The senders of the model's chat: the first Viewers messages come from   *)
(* distinct ordinary viewers, every later one from any of Usernames.       *)
Senders(seq) == IF seq <= Viewers THEN {Viewer(seq)} ELSE Usernames

(* `${messageObj.author.username}_${Date.now()}` : the pieces of the id *)
OperationId(username, t) == username \o <<Num(t)>>

(* parseInt(piece): a number, or NaN *)
NaN == [nan |-> TRUE, val |-> 0]
ParseInt(piece) == IF piece.kind = "num" THEN [nan |-> FALSE, val |-> piece.val] ELSE NaN

(* parseInt(operationId.split('_')[1]) *)
QueuedStamp(operationId) == ParseInt(operationId[2])

(* Date.now() - stamp > limit ; every comparison with NaN is false *)
AgeExceeds(t, stamp, limit) == (~stamp.nan) /\ (t - stamp.val > limit)

----------------------------------------------------------------------------
(* handleMessageSafely, from its entry to its first await *)

(* messageObj.content.startsWith('!') ? 'command' : 'auto_translate' ; the  *)
(* messages of SpecOps are plain chat lines                                  *)
MessageType(msg) == "auto_translate"

ActiveSize(ops) == Cardinality(DOMAIN ops)

(* Map.prototype.set *)
MapSet(m, k, v) == [x \in (DOMAIN m) \cup {k} |-> IF x = k THEN v ELSE m[x]]

(* Map.prototype.delete *)
MapDelete(m, k) == [x \in (DOMAIN m) \ {k} |-> m[x]]

(* The capacity check of handleMessageSafely *)
AtCapacity(ops) == ActiveSize(ops) >= maxConcurrentOperations

(* handleMessageSafely(messageObj): queue the message or register it and  *)
(* start its handler.  q and im are the queue and the pending immediates  *)
(* as the caller leaves them.                                             *)
HandleMessageSafely(msg, q, im) ==
    LET operationId == OperationId(msg.username, now) IN
    /\ immediates' = im
    /\ IF AtCapacity(activeOperations)
       THEN /\ operationQueue' = Append(q, [messageObj |-> msg, operationId |-> operationId])
            /\ UNCHANGED <<activeOperations, inHandler>>
       ELSE /\ activeOperations' = MapSet(activeOperations, operationId,
                    [username |-> msg.username, startTime |-> now, type |-> MessageType(msg)])
            /\ inHandler' = inHandler \cup {[messageObj |-> msg, operationId |-> operationId]}
            /\ operationQueue' = q

(* processOperationQueue: the while loop.  size is activeOperations.size, *)
(* which the loop never changes; the result is the queue left, the        *)
(* messages handed to setImmediate in order, and the entries skipped.     *)
RECURSIVE ProcessOperationQueue(_, _, _)
ProcessOperationQueue(q, size, t) ==
    IF Len(q) > 0 /\ size < maxConcurrentOperations
    THEN LET head == Head(q)
             rest == ProcessOperationQueue(Tail(q), size, t)
         IN IF AgeExceeds(t, QueuedStamp(head.operationId), StaleMessageAge)
            THEN [queue |-> rest.queue, scheduled |-> rest.scheduled,
                  skipped |-> {head} \cup rest.skipped]
            ELSE [queue |-> rest.queue, scheduled |-> <<head.messageObj>> \o rest.scheduled,
                  skipped |-> rest.skipped]
    ELSE [queue |-> q, scheduled |-> <<>>, skipped |-> {}]

----------------------------------------------------------------------------
(* Actions of SpecOps *)

(* client.on('message'): a chat message arrives *)
Arrive(username) ==
    /\ nextSeq <= MaxMessages
    /\ username \in Senders(nextSeq)
    /\ nextSeq' = nextSeq + 1
    /\ HandleMessageSafely([seq |-> nextSeq, username |-> username, received |-> now],
                           operationQueue, immediates)
    /\ UNCHANGED <<now, skipped, ticks, rateVars, cmdVars, moreVars>>

(* A callback registered by processOperationQueue runs *)
RunImmediate ==
    /\ immediates # <<>>
    /\ HandleMessageSafely(Head(immediates), operationQueue, Tail(immediates))
    /\ UNCHANGED <<now, nextSeq, skipped, ticks, rateVars, cmdVars, moreVars>>

(* The handler of an active message settles: the finally block of *)
(* handleMessageSafely                                            *)
Finish(task) ==
    /\ task \in inHandler
    /\ LET ops == MapDelete(activeOperations, task.operationId)
           r == ProcessOperationQueue(operationQueue, ActiveSize(ops), now)
       IN /\ activeOperations' = ops
          /\ operationQueue' = r.queue
          /\ immediates' = immediates \o r.scheduled
          /\ skipped' = r.skipped
    /\ inHandler' = inHandler \ {task}
    /\ UNCHANGED <<now, nextSeq, ticks, rateVars, cmdVars, moreVars>>

(* The clock.  One millisecond may pass at any point; a long time passes  *)
(* only between turns of the event loop, when no immediate is pending.    *)
LongSteps == {30001}

Tick(d) ==
    /\ ticks < MaxTicks
    /\ d = 1 \/ immediates = <<>>
    /\ now' = now + d
    /\ ticks' = ticks + 1
    /\ UNCHANGED <<activeOperations, operationQueue, immediates, inHandler, nextSeq, skipped, rateVars,
                   cmdVars, moreVars>>

(* The Bot Core after the constructor and start(): the membership is what   *)
(* loadAutoTranslateSettings reads from the settings file                    *)
NoFile == [exists |-> FALSE]
SavedFile(users) == [exists |-> TRUE, users |-> users]
NoText == [text |-> "null"]
NoTrip == [stage |-> 0, nick |-> ""]
NoOp == [pc |-> "idle"]

LoadAutoTranslateSettings(file) == IF file.exists THEN file.users ELSE {}

InitBot(file) ==
    /\ settingsFile = file
    /\ autoTranslateUsers = LoadAutoTranslateSettings(file)
    /\ client = "connected"
    /\ isRunning = TRUE
    /\ errorCount = 0
    /\ lastErrorReset = 0
    /\ recoveries = 0
    /\ op = NoOp
    /\ translatorCalls = <<>>
    /\ sendLog = <<>>
    /\ trip = NoTrip

InitTr ==
    /\ translationCache = <<>>
    /\ cmds = <<>>

InitErr == windowErrors = 0

NoStop == [active |-> 0, queued |-> 0, unsaved |-> FALSE]

InitStop ==
    /\ stopPc = "none"
    /\ stopSaw = NoStop

(* A string is the sequence of its characters; "LF" is the line feed.  A   *)
(* variable of process.env or a property of an object that is not set is  *)
(* Undefined                                                               *)
Undefined == <<"undefined">>

NoSettings ==
    [accessToken |-> Undefined, clientId |-> Undefined, nickname |-> Undefined,
     channel |-> Undefined]

NoEnvFile == <<"no file">>

NoReply == [req |-> "none"]

InitShell ==
    /\ envFile = NoEnvFile
    /\ processEnv = NoSettings
    /\ bot = 0
    /\ botRunning = FALSE
    /\ instances = <<>>
    /\ reply = NoReply
    /\ lastSaved = NoSettings

(* new AdvancedTranslationService(): an empty cache, zeroed statistics,    *)
(* and startCacheCleanup() arms the clean-up timer                         *)
maxCacheSize == 1000
maxCacheAge == 3600000          \* 1000 * 60 * 60
cleanupInterval == 600000       \* 1000 * 60 * 10

Null == <<"null">>

NoRead == [n |-> 0, key |-> 0, value |-> Null, age |-> -1]

InitSvc ==
    /\ cache = <<>>
    /\ stats = [translations |-> 0, cacheHits |-> 0, errors |-> 0, cacheEvictions |-> 0]
    /\ apiQueue = <<>>
    /\ lastRead = NoRead
    /\ nextCleanup = cleanupInterval

NoSample == [none |-> TRUE]

InitDet ==
    /\ sample = NoSample
    /\ detected = NoSample

InitCall ==
    /\ waiting = <<>>
    /\ callLog = <<>>

(* No call of safeExecute has been made *)
NoCall == [pc |-> "idle", attempt |-> 0, invoked |-> 0, failed |-> 0, handled |-> 0,
           proceed |-> FALSE, result |-> "none", calls |-> 0]

InitSafe == safeCall = NoCall

InitRec ==
    /\ recs = <<>>
    /\ closing = 0
    /\ eventLog = <<>>

(* No status poll has been made: the controls are as the page has them *)
NoStatus == [none |-> TRUE]

InitUi == poll = [status |-> NoStatus, startDisabled |-> "unset", stopDisabled |-> "unset"]

InitMore == InitTr /\ InitErr /\ InitStop /\ InitShell /\ InitSvc /\ InitDet /\ InitCall /\ InitSafe /\ InitRec /\ InitUi

InitRate ==
    /\ requestQueue = <<>>
    /\ isProcessingQueue = FALSE
    /\ requestTimes = <<>>
    /\ pc = "idle"
    /\ cur = NoRequest
    /\ wake = 0
    /\ pending = {}
    /\ settled = {}
    /\ nextReq = 1
    /\ dispatchLog = <<>>
    /\ loops = 0
    /\ inFlight = 0
    /\ lastOutcome = "none"

InitOpsVars ==
    /\ activeOperations = << >>
    /\ operationQueue = <<>>
    /\ immediates = <<>>
    /\ inHandler = {}
    /\ nextSeq = 1
    /\ skipped = {}
    /\ ticks = 0

InitOps ==
    /\ now = 0
    /\ InitRate
    /\ InitOpsVars
    /\ InitBot(NoFile)
    /\ InitMore

NextOps ==
    \/ \E u \in Senders(nextSeq) : Arrive(u)
    \/ RunImmediate
    \/ \E task \in inHandler : Finish(task)
    \/ \E d \in {1} \cup LongSteps : Tick(d)

SpecOps == InitOps /\ [][NextOps]_vars

----------------------------------------------------------------------------
(* Claims about the concurrency control *)

(* The chat messages that wait: queued, or handed to setImmediate *)
Range(f) == {f[i] : i \in DOMAIN f}
Waiting == {e.messageObj : e \in Range(operationQueue)} \cup Range(immediates)

(* The time a message in its handler was registered: the stamp of its id *)
BeganAt(task) == task.operationId[Len(task.operationId)].val

(* C1: at most 5 chat messages are being processed at the same time, and   *)
(* the number of active operation records equals the number of messages    *)
(* being processed.                                                        *)
C1_ExactBound ==
    /\ Cardinality(inHandler) <= maxConcurrentOperations
    /\ ActiveSize(activeOperations) = Cardinality(inHandler)

(* C2: with 5 operations active no message begins processing, and a        *)
(* message never begins processing while a message that arrived before it  *)
(* is still waiting (queued messages begin in arrival order, head first).  *)
C2_HeadFirst ==
    [][ \A task \in inHandler' \ inHandler :
            /\ ~AtCapacity(activeOperations)
            /\ \A w \in Waiting : w.seq >= task.messageObj.seq ]_vars

(* C3: no message begins processing more than 30 seconds after it was      *)
(* first received, and no message younger than 30 seconds is discarded as  *)
(* stale.                                                                  *)
C3_StaleExactly ==
    /\ \A task \in inHandler : BeganAt(task) - task.messageObj.received <= StaleMessageAge
    /\ \A e \in skipped : now - e.messageObj.received > StaleMessageAge

----------------------------------------------------------------------------
(* Translation Service: the rate-limited request queue *)

(* The outcomes of one call of the translation API: a result; an error    *)
(* whose message contains "network" or "timeout"; any other error         *)
ApiOutcomes == {"ok", "network", "other"}

(* How long a call of the translation API takes *)
Latencies == {0, 30001}

Max(a, b) == IF a >= b THEN a ELSE b

RECURSIVE MinOf(_)
MinOf(times) == IF Len(times) = 1 THEN times[1]
                ELSE LET m == MinOf(Tail(times)) IN IF times[1] <= m THEN times[1] ELSE m

(* canMakeRequest: this.requestTimes.filter(time => time > oneMinuteAgo) *)
PruneTimes(times, t) == SelectSeq(times, LAMBDA time : time > t - RateWindow)

(* A limiter that admits a request when the window already holds 30 *)
UnderLimitOffByOne(times) == Len(times) <= maxRequestsPerMinute

(* canMakeRequest: this.requestTimes.length < this.maxRequestsPerMinute *)
UnderLimit(times) == Len(times) < maxRequestsPerMinute

(* getWaitTime *)
GetWaitTime(times, t) ==
    IF Len(times) = 0 THEN 0
    ELSE Max(RateWindow - (t - MinOf(times)), MinWait)

(* requestAge > 30000 *)
IsStaleRequestByWindow(request, t) == t - request.timestamp > RateWindow

IsStaleRequest(request, t) == t - request.timestamp > StaleRequestAge

(* processQueue: the while loop from its top to the next await, at time *)
(* t, given the queue and the dispatch times; st is what the loop has   *)
(* settled so far.                                                      *)
RECURSIVE QueueLoop(_, _, _, _)
QueueLoop(q, times, st, t) ==
    IF Len(q) = 0
    THEN \* the loop ends; finally: isProcessingQueue = false
         [queue |-> q, times |-> times, settled |-> st, pc |-> "idle", cur |-> NoRequest,
          wake |-> 0, processing |-> FALSE, dispatched |-> FALSE]
    ELSE LET pruned == PruneTimes(times, t) IN
         IF ~UnderLimit(pruned)
         THEN \* await this.sleep(waitTime); continue
              [queue |-> q, times |-> pruned, settled |-> st, pc |-> "wait", cur |-> NoRequest,
               wake |-> t + GetWaitTime(pruned, t), processing |-> TRUE, dispatched |-> FALSE]
         ELSE LET request == Head(q) IN
              IF IsStaleRequest(request, t)
              THEN \* request.reject(new Error('Request timeout')); continue
                   QueueLoop(Tail(q), pruned, st \cup {[id |-> request.id, how |-> "timeout"]}, t)
              ELSE \* this.requestTimes.push(Date.now()); await translate(...)
                   [queue |-> Tail(q), times |-> Append(pruned, t), settled |-> st,
                    pc |-> "api", cur |-> request, wake |-> 0, processing |-> TRUE,
                    dispatched |-> TRUE]

(* The state processQueue leaves when it runs its loop at time t; entered *)
(* is 1 when this is a new invocation that has just set isProcessingQueue *)
(* and 0 when a loop that slept goes on                                   *)
RunLoop(q, times, pend, t, entered) ==
    LET r == QueueLoop(q, times, {}, t) IN
    /\ loops' = loops + entered - (IF r.pc = "idle" THEN 1 ELSE 0)
    /\ inFlight' = inFlight + (IF r.dispatched THEN 1 ELSE 0)
    /\ lastOutcome' = IF r.pc = "wait" THEN lastOutcome ELSE "none"
    /\ requestQueue' = r.queue
    /\ requestTimes' = r.times
    /\ settled' = r.settled
    /\ pending' = pend \ {x.id : x \in r.settled}
    /\ pc' = r.pc
    /\ cur' = r.cur
    /\ wake' = r.wake
    /\ isProcessingQueue' = r.processing
    /\ dispatchLog' = IF r.dispatched
                      THEN Append(SelectSeq(dispatchLog, LAMBDA d : d > t - RateWindow), t)
                      ELSE SelectSeq(dispatchLog, LAMBDA d : d > t - RateWindow)

(* processQueue: `if (this.isProcessingQueue ...) return` *)
ConsumerNeverRunning == FALSE

ConsumerRunning == isProcessingQueue

(* performTranslationWithRateLimit: push the request, call processQueue; *)
(* at most `limit` requests are made in a behaviour                      *)
PerformTranslationWithRateLimit(limit) ==
    /\ nextReq <= limit
    /\ nextReq' = nextReq + 1
    /\ LET request == [id |-> nextReq, timestamp |-> now]
           q == Append(requestQueue, request)
       IN IF ConsumerRunning
          THEN /\ requestQueue' = q
               /\ pending' = pending \cup {nextReq}
               /\ settled' = {}
               /\ UNCHANGED <<isProcessingQueue, requestTimes, pc, cur, wake, dispatchLog, loops,
                              inFlight, lastOutcome>>
          ELSE RunLoop(q, requestTimes, pending \cup {nextReq}, now, 1)
    /\ UNCHANGED <<now, opsVars, cmdVars, moreVars>>

Enqueue == PerformTranslationWithRateLimit(MaxRequests)

(* sleep(waitTime) or sleep(100) is over: the loop goes on *)
SleepDone ==
    /\ pc \in {"wait", "pace"}
    /\ now' = Max(now, wake)
    /\ RunLoop(requestQueue, requestTimes, pending, Max(now, wake), 0)
    /\ UNCHANGED <<nextReq, opsVars, cmdVars, moreVars>>

(* this.requestQueue.unshift(request) *)
PutBackLast(request, q) == Append(q, request)

PutBack(request, q) == <<request>> \o q

(* The call of the translation API settles after `latency` ms: resolve,   *)
(* put the request back at the front, or reject; then await sleep(100)    *)
ApiReturns(latency, outcome) ==
    /\ pc = "api"
    /\ now' = now + latency
    /\ settled' = CASE outcome = "ok" -> {[id |-> cur.id, how |-> "resolved"]}
                    [] outcome = "network" -> {}
                    [] outcome = "other" -> {[id |-> cur.id, how |-> "rejected"]}
    /\ pending' = IF outcome = "network" THEN pending ELSE pending \ {cur.id}
    /\ requestQueue' = IF outcome = "network" THEN PutBack(cur, requestQueue) ELSE requestQueue
    /\ lastOutcome' = outcome
    /\ pc' = "pace"
    /\ wake' = now + latency + PaceDelay
    /\ cur' = NoRequest
    /\ inFlight' = inFlight - 1
    /\ UNCHANGED <<isProcessingQueue, requestTimes, nextReq, dispatchLog, loops, opsVars, cmdVars,
                   moreVars>>

(* The call of the translation API fails after `latency` ms with a value  *)
(* that has no message (error.message is undefined): in the catch block   *)
(* `error.message.includes` throws a TypeError, which leaves the while    *)
(* loop for the outer catch; finally: isProcessingQueue = false.  The     *)
(* request was taken from the queue and is neither resolved nor rejected. *)
ApiFailsWithoutMessage(latency) ==
    /\ pc = "api"
    /\ now' = now + latency
    /\ settled' = {}
    /\ pc' = "idle"
    /\ wake' = 0
    /\ cur' = NoRequest
    /\ isProcessingQueue' = FALSE
    /\ inFlight' = inFlight - 1
    /\ loops' = loops - 1
    /\ lastOutcome' = "no message"
    /\ UNCHANGED <<requestQueue, pending, requestTimes, nextReq, dispatchLog, opsVars, cmdVars,
                   moreVars>>

(* Time passes while processQueue is not running or sleeps on the rate limit *)
IdleGaps == {30000}

Idle(d) ==
    /\ pc = "idle" \/ (pc = "wait" /\ now + d <= wake)
    /\ now + d <= MaxTime
    /\ now' = now + d
    /\ UNCHANGED <<rateVars, opsVars, cmdVars, moreVars>>

InitRateSpec ==
    /\ now = 0
    /\ InitRate
    /\ InitOpsVars
    /\ InitBot(NoFile)
    /\ InitMore

NextRate ==
    \/ Enqueue
    \/ SleepDone
    \/ \E latency \in Latencies, outcome \in ApiOutcomes : ApiReturns(latency, outcome)
    \/ \E d \in IdleGaps : Idle(d)

SpecRate == InitRateSpec /\ [][NextRate]_vars

(* A burst: one request more than the limit is enqueued in rapid succession  *)
(* (before the clock moves), the translation API answers every call at once, *)
(* and one more request follows later, when the queue has drained.           *)
BurstSize == maxRequestsPerMinute + 1

EnqueueBurst ==
    /\ now = 0
    /\ PerformTranslationWithRateLimit(BurstSize)

EnqueueLate ==
    /\ nextReq = BurstSize + 1
    /\ pc = "idle"
    /\ PerformTranslationWithRateLimit(BurstSize + 1)

NextBurst ==
    \/ EnqueueBurst
    \/ EnqueueLate
    \/ SleepDone
    \/ \E outcome \in ApiOutcomes : ApiReturns(0, outcome)

SpecBurst == InitRateSpec /\ [][NextBurst]_vars

----------------------------------------------------------------------------
(* Claims about the rate limiter *)

(* The calls of the translation API in the 60 seconds that end now *)
InWindow == SelectSeq(dispatchLog, LAMBDA d : d > now - RateWindow)

(* C4: at most 30 calls of the translation API are made in any trailing   *)
(* 60-second window (the window that ends at any call or at any later     *)
(* moment; a call exactly 60000 ms old has left it, as in canMakeRequest) *)
C4_WindowBound == Len(InWindow) <= maxRequestsPerMinute

(* C4, the case: the window is full; 29 of its calls are nearly a minute  *)
(* old and the call just made took the place of one that left the window  *)
C4_FullWindow ==
    /\ pc = "api"
    /\ Len(InWindow) = maxRequestsPerMinute
    /\ now - InWindow[1] > StaleRequestAge

(* C5: of 31 requests enqueued in rapid succession the 31st is delayed,   *)
(* not dropped: its caller is never rejected with 'Request timeout'; the  *)
(* request waits for the window and is then sent to the API.              *)
C5_ThirtyFirstDelivered ==
    \A x \in settled : x.id = BurstSize => x.how # "timeout"

----------------------------------------------------------------------------
(* The handlers of the Bot Core: program constants *)

maxErrors == 10                  \* this.maxErrors
errorResetInterval == 600000     \* this.errorResetInterval = 1000 * 60 * 10
maxRetries == 3                  \* this.maxRetries
retryDelay == 2000               \* this.retryDelay
MaxAutoLength == 300             \* handleAutoTranslate: content.length > 300
MinAutoLength == 3               \* shouldTranslateForAutoUser: content.length < 3

MaxCmdTime == 70000    \* SpecCmd lets no retry delay pass beyond this clock value

(* The configured channel, and String.prototype.toLowerCase on the names   *)
(* that occur                                                              *)
channel == "Streamer"

ToLowerCase(s) ==
    CASE s = "Streamer" -> "streamer"
      [] s = "Bob" -> "bob"
      [] OTHER -> s

(* messageObj.author: tags.username, tags.mod || false,                    *)
(* tags['user-type'] || 'user'                                             *)
Author(username, mod, userType) == [username |-> username, mod |-> mod, userType |-> userType]

Authors == { Author("streamer", FALSE, "user"),   \* the broadcaster
             Author("mira", TRUE, "user"),        \* moderator flag set
             Author("otto", FALSE, "mod"),        \* user-type "mod"
             Author("Bob", FALSE, "user"),        \* ordinary viewers
             Author("carol", FALSE, "user") }

(* A chat text that does not start with "!" is given by its characters:    *)
(* pad leading/trailing whitespace characters, lat letters a-zA-Z, cyr     *)
(* Cyrillic letters, spa characters of the Spanish class, oth others       *)
(* (digits, punctuation, inner spaces).                                    *)
Text(pad, lat, cyr, spa, oth) ==
    [bang |-> FALSE, pad |-> pad, lat |-> lat, cyr |-> cyr, spa |-> spa, oth |-> oth]

Length(content) == content.pad + content.lat + content.cyr + content.spa + content.oth

Trim(content) == [content EXCEPT !.pad = 0]

Texts == { Text(0, 5, 0, 0, 1),      \* Latin only
           Text(0, 0, 5, 0, 1),      \* Cyrillic only
           Text(0, 3, 1, 0, 0),      \* Latin-dominant with some Cyrillic
           Text(0, 2, 2, 0, 1),      \* 50/50
           Text(0, 2, 2, 1, 0),      \* 50/50 with a Spanish character (25%)
           Text(0, 2, 0, 0, 0),      \* two Latin letters
           Text(0, 0, 2, 0, 0),      \* two Cyrillic letters
           Text(0, 10, 0, 1, 0),     \* Latin with Spanish characters at exactly 10%
           Text(0, 20, 0, 1, 0),     \* Latin with Spanish characters at 5%
           Text(0, 0, 0, 0, 5),      \* no letters
           Text(1, 250, 0, 0, 50),   \* 300 characters after trim, 301 before
           Text(0, 251, 0, 0, 50) }  \* 301 characters

(* A command "!<name> <args>"; the arguments of !auto are its words, each  *)
(* with or without a leading "@"                                           *)
Mention(word) == [at |-> TRUE, word |-> word]
Plain(word) == [at |-> FALSE, word |-> word]
Command(name, args) == [bang |-> TRUE, name |-> name, args |-> args]

Nicks == {"Bob", "carol"}

Commands ==
    { Command("auto", <<Mention(n), Plain(a)>>) : n \in Nicks, a \in {"on", "off"} }
    \cup { Command("auto", <<Plain("Bob"), Plain("on")>>),      \* "!auto Bob on"
           Command("auto", <<Mention("Bob"), Plain("ON")>>),    \* "!auto @Bob ON"
           Command("hello", <<>>) }                             \* not a command of the bot

Messages ==
    { [content |-> c, author |-> a] : c \in Commands, a \in Authors \ {Author("carol", FALSE, "user")} }
    \cup { [content |-> c, author |-> a] : c \in Texts,
                                            a \in {Author("Bob", FALSE, "user"), Author("carol", FALSE, "user")} }

(* hasModeratorPrivileges *)
HasModeratorPrivileges(user) ==
    \/ user.mod
    \/ user.userType = "mod"
    \/ ToLowerCase(user.username) = ToLowerCase(channel)

(* handleAutoCommand: content.match(/@(\w+)\s+(on|off)/), the leftmost     *)
(* mention that is followed by the word on or off                          *)
NoMatch == [matched |-> FALSE]

RECURSIVE MatchAuto(_)
MatchAuto(args) ==
    IF Len(args) < 2 THEN NoMatch
    ELSE IF args[1].at /\ ~args[2].at /\ args[2].word \in {"on", "off"}
         THEN [matched |-> TRUE, nick |-> args[1].word, action |-> args[2].word]
         ELSE MatchAuto(Tail(args))

(* The replies of handleAutoCommand (lines 463, 470, 479, 485, 490, 496)   *)
Refusal(author) == [reply |-> "moderators only", to |-> author]
BadFormat(author) == [reply |-> "usage", to |-> author]
AlreadyOn(author, targetUser) == [reply |-> "already on", to |-> author, target |-> targetUser]
AlreadyOff(author, targetUser) == [reply |-> "already off", to |-> author, target |-> targetUser]
SwitchedOn(author, targetUser, usersCount) ==
    [reply |-> "switched on", to |-> author, target |-> targetUser, usersCount |-> usersCount]
SwitchedOff(author, targetUser, usersCount) ==
    [reply |-> "switched off", to |-> author, target |-> targetUser, usersCount |-> usersCount]

(* The replies of handleAutoTranslate: `@${username} write: ${t}` (lines   *)
(* 311, 331) and `@${username} pishet: ${t}`, "pishet" standing for the    *)
(* Russian word of line 321                                                *)
AutoReply(username, verb, translatedText) ==
    [reply |-> verb, to |-> username, translatedText |-> translatedText]

(* What the first run-to-completion step of an operation asks for: nothing *)
(* more (Return), a reply (Send, perhaps followed by a save), or a         *)
(* translation (Translate, the reply then uses `verb`)                     *)
Return(users) == [next |-> "return", users |-> users]
Send(users, text, save) == [next |-> "send", users |-> users, text |-> text, save |-> save]
Translate(users, fn, text, verb) ==
    [next |-> "translate", users |-> users, fn |-> fn, text |-> text, verb |-> verb]

(* handleAutoCommand up to its first await *)
HandleAutoCommand(message, users) ==
    LET author == message.author.username
        match == MatchAuto(message.content.args)
        targetUser == ToLowerCase(match.nick)
    IN IF ~HasModeratorPrivileges(message.author) THEN Send(users, Refusal(author), FALSE)
       ELSE IF ~match.matched THEN Send(users, BadFormat(author), FALSE)
       ELSE IF match.action = "on"
            THEN IF targetUser \in users
                 THEN Send(users, AlreadyOn(author, targetUser), FALSE)
                 ELSE LET added == users \cup {targetUser}
                      IN Send(added, SwitchedOn(author, targetUser, Cardinality(added)), TRUE)
            ELSE IF targetUser \notin users
                 THEN Send(users, AlreadyOff(author, targetUser), FALSE)
                 ELSE LET deleted == users \ {targetUser}
                      IN Send(deleted, SwitchedOff(author, targetUser, Cardinality(deleted)), TRUE)

(* (part / total) * 100 > percent, and < percent *)
PercentOver(part, total, percent) == 100 * part > percent * total
PercentUnder(part, total, percent) == 100 * part < percent * total

----------------------------------------------------------------------------
(* The translation commands !ru, !en, !es (handleCommands 349-375,         *)
(* handleTranslateCommand 387-455)                                         *)

MaxCommandLength == 500     \* text.length > 500
MaxCommandCache == 500      \* this.translationCache.size >= 500

(* The chat line "!" name, `gap` spaces, `text`.  The whitespace of `text` *)
(* (its pad) is at its end                                                 *)
TranslateCommand(name, gap, text) == [bang |-> TRUE, name |-> name, gap |-> gap, text |-> text]

NoArgument == Text(0, 0, 0, 0, 0)

(* message.content.toLowerCase().trim().startsWith('!' + keyword + ' '):   *)
(* trim() removes everything after the keyword when only whitespace        *)
(* follows it, and then the space that startsWith asks for is gone         *)
StartsWithKeyword(content, keyword) ==
    /\ ToLowerCase(content.name) = keyword
    /\ content.gap >= 1
    /\ Length(Trim(content.text)) > 0

(* message.content.substring(4).trim() *)
Argument(content) == Trim(content.text)

(* detectLanguage *)
DetectLanguage(text) ==
    LET totalChars == text.lat + text.cyr
    IN IF Length(text) < 2 THEN "null"
       ELSE IF totalChars = 0 THEN "null"
       ELSE IF PercentOver(text.cyr, totalChars, 50) THEN "ru"
       ELSE IF PercentOver(text.spa, totalChars, 10) THEN "es"
       ELSE IF PercentOver(text.lat, totalChars, 50) THEN "en"
       ELSE "null"

(* `${text}_${sourceLang}_${targetLang}`: the two codes have two letters,  *)
(* so the key determines its three parts                                   *)
CacheKey(text, sourceLang, targetLang) ==
    [text |-> text, sourceLang |-> sourceLang, targetLang |-> targetLang]

(* Map.get, Map.set with the size limit of lines 428-432 *)
CacheHas(map, key) == \E i \in 1..Len(map) : map[i].key = key

CacheGet(map, key) ==
    IF CacheHas(map, key)
    THEN map[CHOOSE i \in 1..Len(map) : map[i].key = key].value
    ELSE NoText

CacheSet(map, key, value) ==
    LET room == IF Len(map) >= MaxCommandCache THEN Tail(map) ELSE map
    IN IF CacheHas(room, key)
       THEN [i \in 1..Len(room) |-> IF room[i].key = key
                                    THEN [key |-> key, value |-> value] ELSE room[i]]
       ELSE Append(room, [key |-> key, value |-> value])

(* The replies of the translation commands; "pishet" stands for the        *)
(* Russian word of line 443                                                *)
UsageError(author, keyword) == [reply |-> "usage", to |-> author, keyword |-> keyword]
TooLong(author) == [reply |-> "too long", to |-> author]
Undetected(author) == [reply |-> "language not detected", to |-> author]
SameLanguage(author, targetLang) == [reply |-> "same language", to |-> author, lang |-> targetLang]
TranslationFailed(author) == [reply |-> "translation failed", to |-> author]

WriteText(targetLang) ==
    CASE targetLang = "ru" -> "pishet"
      [] targetLang = "en" -> "write"
      [] targetLang = "es" -> "escribe"

CommandReply(author, targetLang, translatedText) ==
    [reply |-> WriteText(targetLang), to |-> author, translatedText |-> translatedText]

(* The first step of a command asks for the translation of `text` *)
CallTranslator(users, text, sourceLang, targetLang) ==
    [next |-> "command", users |-> users, text |-> text, sourceLang |-> sourceLang,
     targetLang |-> targetLang]

(* handleTranslateCommand up to its first await *)
HandleTranslateCommand(message, text, targetLang, users) ==
    LET author == message.author.username
        sourceLang == DetectLanguage(text)
        translatedText == CacheGet(translationCache, CacheKey(text, sourceLang, targetLang))
    IN IF Length(text) > MaxCommandLength THEN Send(users, TooLong(author), FALSE)
       ELSE IF sourceLang = "null" THEN Send(users, Undetected(author), FALSE)
       ELSE IF sourceLang = targetLang THEN Send(users, SameLanguage(author, targetLang), FALSE)
       ELSE IF translatedText = NoText THEN CallTranslator(users, text, sourceLang, targetLang)
       ELSE Send(users, CommandReply(author, targetLang, translatedText), FALSE)

(* handleTranslateCommand after `await this.translator.translate` (426-454): *)
(* the cache and the reply                                                 *)
AfterTranslate(map, author, text, sourceLang, targetLang, translatedText) ==
    IF translatedText # NoText
    THEN [cache |-> CacheSet(map, CacheKey(text, sourceLang, targetLang), translatedText),
          text |-> CommandReply(author, targetLang, translatedText)]
    ELSE [cache |-> map, text |-> TranslationFailed(author)]

Keywords == <<"ru", "en", "es">>

(* The branches of handleCommands for the translation commands, tried in   *)
(* the order of the code                                                   *)
HandleKeyword(message, keyword, users) ==
    LET text == Argument(message.content)
    IN IF Length(text) > 0
       THEN HandleTranslateCommand(message, text, keyword, users)
       ELSE Send(users, UsageError(message.author.username, keyword), FALSE)

(* handleCommands: the translation commands and !auto (!tstatus is not     *)
(* modelled); a text that starts with "!" and matches no branch does       *)
(* nothing                                                                 *)
HandleCommands(message, users) ==
    IF \E k \in 1..Len(Keywords) : StartsWithKeyword(message.content, Keywords[k])
    THEN HandleKeyword(message, ToLowerCase(message.content.name), users)
    ELSE IF ToLowerCase(message.content.name) = "auto"
    THEN HandleAutoCommand(message, users)
    ELSE Return(users)

(* shouldTranslateForAutoUser *)
ShouldTranslateForAutoUser(content) ==
    LET totalChars == content.lat + content.cyr
    IN /\ ~(Length(content) < MinAutoLength)
       /\ totalChars # 0
       /\ \/ PercentOver(content.lat, totalChars, 50) /\ PercentUnder(content.cyr, totalChars, 50)
          \/ PercentOver(content.cyr, totalChars, 50) /\ PercentUnder(content.lat, totalChars, 50)
          \/ PercentOver(content.spa, totalChars, 10)

(* A membership test that lets everyone pass once the list has a member *)
UserInAutoListAnyone(users, author) == users # {}

(* handleAutoTranslate: this.autoTranslateUsers.has(author) *)
UserInAutoList(users, author) == author \in users

(* A branch that translates every text to English *)
AutoBranchToEnglish(users, content) == Translate(users, "translateToEnglish", content, "write")

(* handleAutoTranslate: the branch on the letter percentages (304-337) *)
AutoBranch(users, content) ==
    LET totalChars == content.lat + content.cyr
    IN IF PercentOver(content.cyr, totalChars, 50) /\ PercentUnder(content.lat, totalChars, 50)
       THEN Translate(users, "translateToEnglish", content, "write")
       ELSE IF /\ PercentOver(content.lat, totalChars, 50)
               /\ PercentUnder(content.cyr, totalChars, 50)
               /\ PercentUnder(content.spa, totalChars, 10)
       THEN Translate(users, "translateToRussian", content, "pishet")
       ELSE IF PercentOver(content.spa, totalChars, 10)
       THEN Translate(users, "translateToEnglish", content, "write")
       ELSE Return(users)

(* handleAutoTranslate up to its first await *)
HandleAutoTranslate(message, users) ==
    LET author == ToLowerCase(message.author.username)
        content == Trim(message.content)
    IN IF Length(content) > MaxAutoLength THEN Return(users)
       ELSE IF ~UserInAutoList(users, author) THEN Return(users)
       ELSE IF ShouldTranslateForAutoUser(content) /\ Length(content) > 0
                /\ content.lat + content.cyr > 0
            THEN AutoBranch(users, content)
            ELSE Return(users)

(* The operation handleMessageSafely passes to safeExecute (156-162) *)
Operation(message, users) ==
    IF message.content.bang THEN HandleCommands(message, users)
    ELSE HandleAutoTranslate(message, users)

(* What the translator hands back: nothing, the text itself, or another text *)
Translated(content) == [translationOf |-> content]
TranslatorResults(content) == {NoText, content, Translated(content)}

(* handleError without the isCritical test: handleCriticalError starts     *)
(* only when the counter exceeds maxErrors                                 *)
HandleErrorByCountOnly(count, lastReset, t, running, isCritical) ==
    LET expired == t - lastReset > errorResetInterval
        counted == IF expired THEN 0 ELSE count + 1
    IN [errorCount |-> counted,
        lastErrorReset |-> IF expired THEN t ELSE lastReset,
        recover |-> counted > maxErrors /\ running,
        proceed |-> ~isCritical /\ counted <= maxErrors]

(* handleError(error, context, isCritical) at time t: the new counter and  *)
(* reset time, whether handleCriticalError is started, and the value       *)
(* returned                                                                *)
HandleError(count, lastReset, t, running, isCritical) ==
    LET expired == t - lastReset > errorResetInterval
        counted == IF expired THEN 0 ELSE count + 1
        critical == isCritical \/ counted > maxErrors
    IN [errorCount |-> counted,
        lastErrorReset |-> IF expired THEN t ELSE lastReset,
        recover |-> critical /\ running,
        proceed |-> ~isCritical /\ counted <= maxErrors]

----------------------------------------------------------------------------
(* SpecCmd: one operation at a time, from the moment handleMessageSafely   *)
(* passes it to safeExecute until that call returns or throws.  Admission  *)
(* and release of operations are the subject of SpecOps.  The filesystem   *)
(* write of saveAutoTranslateSettings succeeds.  A recovery started by     *)
(* handleError is counted; it then awaits its own chat notification.       *)

IsAutoCommand(message) ==
    message.content.bang /\ ToLowerCase(message.content.name) = "auto"

(* The on/off pair in progress after `message` has been handled *)
TripAfter(message, before) ==
    LET match == MatchAuto(message.content.args)
    IN IF IsAutoCommand(message) /\ HasModeratorPrivileges(message.author) /\ match.matched
       THEN IF match.action = "on" /\ before.users = {}
            THEN [stage |-> 1, nick |-> ToLowerCase(match.nick)]
            ELSE IF match.action = "off" /\ trip = [stage |-> 1, nick |-> ToLowerCase(match.nick)]
            THEN [stage |-> 2, nick |-> ToLowerCase(match.nick)]
            ELSE NoTrip
       ELSE NoTrip

(* The operation has returned, or has thrown on the last attempt *)
Finished(message, attempt, before, result, file) ==
    /\ op' = [pc |-> "done", messageObj |-> message, attempt |-> attempt, save |-> FALSE,
              verb |-> "", result |-> result, before |-> before]
    /\ settingsFile' = file
    /\ trip' = TripAfter(message, before)

(* await this.sendMessage(text), followed by saveAutoTranslateSettings()   *)
(* when `save`; without a client sendMessage returns at once               *)
SendMessage(message, attempt, before, result, sends, text, save, users) ==
    /\ sendLog' = Append(sends, text)
    /\ IF client = "null"
       THEN Finished(message, attempt, before, result,
                     IF save THEN SavedFile(users) ELSE settingsFile)
       ELSE /\ op' = [pc |-> "send", messageObj |-> message, attempt |-> attempt, save |-> save,
                      verb |-> "", result |-> result, before |-> before]
            /\ UNCHANGED <<settingsFile, trip>>

(* safeExecute: one attempt of the operation, up to its first await *)
Run(message, attempt, before, calls, sends) ==
    LET r == Operation(message, autoTranslateUsers)
    IN /\ autoTranslateUsers' = r.users
       /\ CASE r.next = "return" ->
                 /\ translatorCalls' = calls
                 /\ sendLog' = sends
                 /\ Finished(message, attempt, before, NoText, settingsFile)
            [] r.next = "translate" ->
                 /\ translatorCalls' = Append(calls, [fn |-> r.fn, text |-> r.text])
                 /\ sendLog' = sends
                 /\ op' = [pc |-> "translate", messageObj |-> message, attempt |-> attempt,
                           save |-> FALSE, verb |-> r.verb, result |-> NoText, before |-> before]
                 /\ UNCHANGED <<settingsFile, trip>>
            [] r.next = "send" ->
                 /\ translatorCalls' = calls
                 /\ SendMessage(message, attempt, before, NoText, sends, r.text, r.save, r.users)

(* A chat message arrives while no operation is under way *)
BeginOperation(message) ==
    /\ op.pc = "idle"
    /\ Run(message, 1, [users |-> autoTranslateUsers, file |-> settingsFile], <<>>, <<>>)
    /\ UNCHANGED <<now, client, isRunning, errorCount, lastErrorReset, recoveries, opsVars, rateVars, moreVars>>

(* handleAutoTranslate: the translator call returns (306-313, 316-323, 326-333) *)
ResultKinds == {"none", "same", "other"}

TranslatedText(kind, content) ==
    CASE kind = "none" -> NoText
      [] kind = "same" -> content
      [] kind = "other" -> Translated(content)

TranslateReturns(kind) ==
    /\ op.pc = "translate"
    /\ LET content == Trim(op.messageObj.content)
           translatedText == TranslatedText(kind, content)
       IN IF translatedText # NoText /\ translatedText # content
          THEN SendMessage(op.messageObj, op.attempt, op.before, translatedText, sendLog,
                           AutoReply(op.messageObj.author.username, op.verb, translatedText),
                           FALSE, autoTranslateUsers)
          ELSE /\ sendLog' = sendLog
               /\ Finished(op.messageObj, op.attempt, op.before, translatedText, settingsFile)
    /\ UNCHANGED <<now, autoTranslateUsers, translatorCalls, client, isRunning, errorCount,
                   lastErrorReset, recoveries, opsVars, rateVars, moreVars>>

(* safeExecute: the waits after `failures` failed attempts, retryDelay *    *)
(* attempt after every attempt but the last                                *)
RECURSIVE RetryWait(_)
RetryWait(failures) ==
    IF failures = 0 THEN 0
    ELSE RetryWait(failures - 1) + (IF failures < maxRetries THEN retryDelay * failures ELSE 0)

(* sendMessage: safeExecute(client.say) ends after `failures` failed       *)
(* attempts, then the rest of the handler runs                             *)
SayFailures == 0..maxRetries

SayResult(failures) ==
    /\ op.pc = "send"
    /\ now + RetryWait(failures) <= MaxCmdTime
    /\ now' = now + RetryWait(failures)
    /\ LET saved == IF op.save THEN SavedFile(autoTranslateUsers) ELSE settingsFile
           e == HandleError(errorCount, lastErrorReset, now', isRunning, FALSE)
           outer == HandleError(e.errorCount, e.lastErrorReset, now', isRunning, FALSE)
       IN IF failures < maxRetries
          THEN /\ Finished(op.messageObj, op.attempt, op.before, op.result, saved)
               /\ UNCHANGED <<errorCount, lastErrorReset, recoveries>>
          ELSE IF e.proceed
          THEN /\ Finished(op.messageObj, op.attempt, op.before, op.result, saved)
               /\ errorCount' = e.errorCount
               /\ lastErrorReset' = e.lastErrorReset
               /\ recoveries' = recoveries + (IF e.recover THEN 1 ELSE 0)
          ELSE IF op.attempt < maxRetries
          THEN /\ op' = [op EXCEPT !.pc = "retry"]
               /\ errorCount' = e.errorCount
               /\ lastErrorReset' = e.lastErrorReset
               /\ recoveries' = recoveries + (IF e.recover THEN 1 ELSE 0)
               /\ UNCHANGED <<settingsFile, trip>>
          ELSE /\ Finished(op.messageObj, op.attempt, op.before, op.result, settingsFile)
               /\ errorCount' = outer.errorCount
               /\ lastErrorReset' = outer.lastErrorReset
               /\ recoveries' = recoveries + (IF e.recover THEN 1 ELSE 0)
                                           + (IF outer.recover THEN 1 ELSE 0)
    /\ UNCHANGED <<autoTranslateUsers, translatorCalls, sendLog, client, isRunning, opsVars, rateVars, moreVars>>

(* safeExecute of handleMessageSafely: the operation threw, the wait is    *)
(* over and the next attempt runs the operation again                      *)
RetryOperation ==
    /\ op.pc = "retry"
    /\ now + retryDelay * op.attempt <= MaxCmdTime
    /\ now' = now + retryDelay * op.attempt
    /\ Run(op.messageObj, op.attempt + 1, op.before, translatorCalls, sendLog)
    /\ UNCHANGED <<client, isRunning, errorCount, lastErrorReset, recoveries, opsVars, rateVars, moreVars>>

(* handleMessageSafely: the finally block, after safeExecute returned or   *)
(* threw; the histories of the operation end with it                       *)
EndOperation ==
    /\ op.pc = "done"
    /\ op' = NoOp
    /\ translatorCalls' = <<>>
    /\ sendLog' = <<>>
    /\ UNCHANGED <<now, autoTranslateUsers, settingsFile, client, isRunning, errorCount,
                   lastErrorReset, recoveries, trip, opsVars, rateVars, moreVars>>

InitCmd ==
    /\ now = 0
    /\ InitRate
    /\ InitOpsVars
    /\ \E file \in {NoFile, SavedFile({"bob"})} : InitBot(file)
    /\ InitMore

NextCmd ==
    \/ \E message \in Messages : BeginOperation(message)
    \/ \E kind \in ResultKinds : TranslateReturns(kind)
    \/ \E failures \in SayFailures : SayResult(failures)
    \/ RetryOperation
    \/ EndOperation

SpecCmd == InitCmd /\ [][NextCmd]_vars

----------------------------------------------------------------------------
(* Claims about the !auto command and the membership file *)

(* The operation is over and its message was an !auto command *)
AutoCommandDone == op.pc = "done" /\ IsAutoCommand(op.messageObj)

(* The users the membership file stores (none when there is no file) *)
StoredUsers == IF settingsFile.exists THEN settingsFile.users ELSE {}

(* C6: whenever the handling of an !auto command has finished            *)
(* (successfully, after retries, or with an error from sending the       *)
(* reply) the users stored in the membership file equal the in-memory    *)
(* membership set.                                                       *)
C6_FileEqualsMemory == AutoCommandDone => StoredUsers = autoTranslateUsers

(* The author has none of the three privileges *)
Unprivileged(author) ==
    /\ ~author.mod
    /\ author.userType # "mod"
    /\ ToLowerCase(author.username) # ToLowerCase(channel)

(* C7: a well-formed `!auto @nick on|off` from an unprivileged user      *)
(* yields a refusal reply and leaves the membership set and the file     *)
(* unchanged; from a privileged user the lowercase nickname is in the    *)
(* set after `on` and out of it after `off`, and when that changed the   *)
(* set, a reply carries the updated count and the file holds the set.    *)
C7_ModeratorOnly ==
    (AutoCommandDone /\ MatchAuto(op.messageObj.content.args).matched) =>
        LET author == op.messageObj.author
            match == MatchAuto(op.messageObj.content.args)
            nick == ToLowerCase(match.nick)
            expected == IF match.action = "on" THEN op.before.users \cup {nick}
                        ELSE op.before.users \ {nick}
            confirmation == IF match.action = "on"
                            THEN SwitchedOn(author.username, nick, Cardinality(expected))
                            ELSE SwitchedOff(author.username, nick, Cardinality(expected))
        IN IF Unprivileged(author)
           THEN /\ sendLog # <<>>
                /\ \A i \in DOMAIN sendLog : sendLog[i] = Refusal(author.username)
                /\ autoTranslateUsers = op.before.users
                /\ settingsFile = op.before.file
           ELSE /\ autoTranslateUsers = expected
                /\ expected # op.before.users =>
                      /\ \E i \in DOMAIN sendLog : sendLog[i] = confirmation
                      /\ settingsFile = SavedFile(expected)

(* C8: a moderator's `!auto @nick on` followed by `!auto @nick off`,     *)
(* starting from an empty membership, leaves the in-memory membership    *)
(* set empty and the membership file holding an empty users list.        *)
C8_RoundTrip ==
    (op.pc = "done" /\ trip.stage = 2) =>
        /\ autoTranslateUsers = {}
        /\ settingsFile = SavedFile({})

----------------------------------------------------------------------------
(* Claims about automatic translation *)

(* An operation is under way or over, and its message is no command *)
PlainMessage == op.pc # "idle" /\ ~op.messageObj.content.bang

(* Its author is in the membership set (under the lowercase name) *)
FromMember == ToLowerCase(op.messageObj.author.username) \in autoTranslateUsers

(* C9: a non-command chat message from an author who is not in the       *)
(* auto-translate membership set never causes a call to the Translation  *)
(* Service and never causes an outbound chat message, whatever its text. *)
C9_NonMemberIgnored ==
    (PlainMessage /\ ~FromMember) => (translatorCalls = <<>> /\ sendLog = <<>>)

(* C9, the case: while bob is a member, carol's Latin text has been      *)
(* handled                                                               *)
C9_NonMemberHandled ==
    /\ op.pc = "done"
    /\ op.messageObj = [content |-> Text(0, 5, 0, 0, 1), author |-> Author("carol", FALSE, "user")]
    /\ autoTranslateUsers = {"bob"}

(* More Latin than Cyrillic letters, more Cyrillic than Latin, as many *)
LatinDominant(content) == content.lat > content.cyr
CyrillicDominant(content) == content.cyr > content.lat
FiftyFifty(content) == content.lat = content.cyr

(* More than 10% Spanish characters, relative to the letters *)
SpanishOverTenth(content) == 10 * content.spa > content.lat + content.cyr

(* The translator returned a text, and not the message's own *)
Usable(translatedText, content) == translatedText # NoText /\ translatedText # content

(* Every translator call so far is fn(content), every text passed to     *)
(* sendMessage is the reply `@user verb: translation`; at least one call *)
(* was made; the reply was sent if the last translation is usable, and   *)
(* was not sent if the only translation is not                           *)
RoutedTo(fn, verb, content) ==
    /\ translatorCalls # <<>>
    /\ \A i \in DOMAIN translatorCalls : translatorCalls[i] = [fn |-> fn, text |-> content]
    /\ \A i \in DOMAIN sendLog :
          sendLog[i] = AutoReply(op.messageObj.author.username, verb, Translated(content))
    /\ (op.pc = "done" /\ Usable(op.result, content)) => sendLog # <<>>
    /\ (op.pc = "done" /\ ~Usable(op.result, content) /\ op.attempt = 1) => sendLog = <<>>

----------------------------------------------------------------------------
(* SpecTr: the translation commands, several handlers in flight.  Every    *)
(* client.say resolves, so safeExecute returns at its first attempt.       *)

MaxCommands == 3       \* translation commands that arrive in one behaviour of SpecTr

outsideTr == <<now, opsVars, rateVars, cmdVars, errVars, stopVars, shellVars, svcVars, detVars, callVars, safeVars, recVars, uiVars>>

TrAuthors == {a \in Authors : a.username \in {"Bob", "carol"}}

TrContents == { TranslateCommand("ru", 1, Text(0, 5, 0, 0, 1)),    \* "!ru Hello!"
                TranslateCommand("en", 1, Text(0, 0, 5, 0, 1)),    \* !en and a Cyrillic text
                TranslateCommand("ru", 1, Text(0, 0, 5, 0, 1)),    \* !ru and a Cyrillic text
                TranslateCommand("ru", 1, Text(0, 0, 0, 0, 5)),    \* "!ru 12345"
                TranslateCommand("ru", 0, Text(0, 5, 0, 0, 0)),    \* "!ruHello"
                TranslateCommand("ru", 0, NoArgument),             \* "!ru"
                TranslateCommand("en", 2, Text(1, 0, 0, 0, 0)),    \* "!en" and three spaces
                TranslateCommand("es", 1, NoArgument) }            \* "!es" and one space

TrMessages == {[author |-> a, content |-> c] : a \in TrAuthors, c \in TrContents}

(* A chat message arrives and its handler runs up to its first await *)
TrArrive(message) ==
    /\ Len(cmds) < MaxCommands
    /\ LET r == Operation(message, autoTranslateUsers)
           started == [messageObj |-> message, pc |-> r.next, result |-> "unasked",
                       reply |-> NoText]
       IN cmds' = Append(cmds,
                    CASE r.next = "return" -> [started EXCEPT !.pc = "done"]
                      [] r.next = "send" -> [started EXCEPT !.reply = r.text]
                      [] r.next = "command" -> [started EXCEPT !.pc = "translate",
                                                               !.result = "pending"])
    /\ UNCHANGED <<translationCache, outsideTr>>

(* this.translator.translate returns to the handler of command i *)
TrTranslated(i, kind) ==
    /\ cmds[i].pc = "translate"
    /\ LET message == cmds[i].messageObj
           text == Argument(message.content)
           after == AfterTranslate(translationCache, message.author.username, text,
                                   DetectLanguage(text), ToLowerCase(message.content.name),
                                   TranslatedText(kind, text))
       IN /\ translationCache' = after.cache
          /\ cmds' = [cmds EXCEPT ![i] = [@ EXCEPT !.pc = "send", !.result = kind,
                                                   !.reply = after.text]]
    /\ UNCHANGED outsideTr

(* sendMessage returns to the handler of command i, which ends *)
TrSent(i) ==
    /\ cmds[i].pc = "send"
    /\ cmds' = [cmds EXCEPT ![i] = [@ EXCEPT !.pc = "done"]]
    /\ UNCHANGED <<translationCache, outsideTr>>

InitTrSpec ==
    /\ now = 0
    /\ InitOpsVars
    /\ InitRate
    /\ InitBot(NoFile)
    /\ InitMore

NextTr ==
    \/ \E message \in TrMessages : TrArrive(message)
    \/ \E i \in 1..Len(cmds), kind \in ResultKinds : TrTranslated(i, kind)
    \/ \E i \in 1..Len(cmds) : TrSent(i)

SpecTr == InitTrSpec /\ [][NextTr]_vars

(* C11: when a !ru command with a translatable text has been answered with *)
(* a translation, no later identical command has called the translator:    *)
(* the translator is called once for the two, the second being served from *)
(* the command cache, also when it arrives while the first still awaits    *)
(* its translation.                                                        *)
Translatable(messageObj) ==
    /\ StartsWithKeyword(messageObj.content, "ru")
    /\ DetectLanguage(Argument(messageObj.content)) \in {"en", "es"}

C11_OneTranslatorCall ==
    \A i, j \in 1..Len(cmds) :
        /\ i < j
        /\ Translatable(cmds[i].messageObj)
        /\ cmds[j].messageObj = cmds[i].messageObj
        /\ cmds[i].result \in {"same", "other"}
        => cmds[j].result = "unasked"

(* C12: a !ru, !en or !es command without an argument (the keyword alone   *)
(* or followed by whitespace only) whose handler has ended was answered    *)
(* with the usage error addressed to its author.                           *)
MissingArgument(messageObj) ==
    /\ messageObj.content.name \in {"ru", "en", "es"}
    /\ Length(Trim(messageObj.content.text)) = 0

C12_UsageReply ==
    \A i \in 1..Len(cmds) :
        MissingArgument(cmds[i].messageObj) /\ cmds[i].pc = "done"
        => cmds[i].reply = UsageError(cmds[i].messageObj.author.username,
                                      cmds[i].messageObj.content.name)

----------------------------------------------------------------------------
(* SpecErr: the error accounting of handleError.  The handled errors are   *)
(* the ones safeExecute passes to handleError after its last attempt; they *)
(* come at any time, in bursts or after long quiet periods.  The           *)
(* connection emits no 'error' event, so every handled error is            *)
(* non-critical.                                                           *)

MaxErrTime == 615000   \* SpecErr lets no time pass beyond this clock value
MaxCounted == 12       \* SpecErr handles no further error once the window holds this many

outsideErr == <<opsVars, rateVars, trVars, stopVars, shellVars, svcVars, detVars, callVars, safeVars, recVars, uiVars, autoTranslateUsers, settingsFile, client, op,
                translatorCalls, sendLog, trip>>

(* safeExecute, last attempt: handleError(error, context) *)
ErrorHandled ==
    /\ windowErrors < MaxCounted
    /\ LET e == HandleError(errorCount, lastErrorReset, now, isRunning, FALSE)
       IN /\ errorCount' = e.errorCount
          /\ lastErrorReset' = e.lastErrorReset
          /\ recoveries' = recoveries + (IF e.recover THEN 1 ELSE 0)
          /\ windowErrors' = IF e.lastErrorReset # lastErrorReset THEN 1 ELSE windowErrors + 1
    /\ UNCHANGED <<now, isRunning, outsideErr>>

(* client.on('disconnected') *)
Disconnected ==
    /\ isRunning
    /\ isRunning' = FALSE
    /\ UNCHANGED <<now, errorCount, lastErrorReset, recoveries, windowErrors, outsideErr>>

ErrGaps == {1000, errorResetInterval + 1}

TimePasses(d) ==
    /\ now + d <= MaxErrTime
    /\ now' = now + d
    /\ UNCHANGED <<isRunning, errorCount, lastErrorReset, recoveries, windowErrors, outsideErr>>

NextErr ==
    \/ ErrorHandled
    \/ Disconnected
    \/ \E d \in ErrGaps : TimePasses(d)

SpecErr == InitOps /\ [][NextErr]_vars

(* C13: while the bot is running, the handled error that is the 11th of    *)
(* its 10-minute window starts the recovery, and a handled error that is   *)
(* the 1st to 10th of its window does not.                                 *)
ErrorStep == windowErrors' # windowErrors \/ lastErrorReset' # lastErrorReset

C13_Rule ==
    ErrorStep /\ isRunning
    => /\ windowErrors' = maxErrors + 1 => recoveries' = recoveries + 1
       /\ windowErrors' <= maxErrors => recoveries' = recoveries

C13_EleventhError == [][C13_Rule]_vars

----------------------------------------------------------------------------
(* SpecStop: stop() called once, at any moment, while chat messages are    *)
(* admitted, queued and released (the actions of SpecOps, without the      *)
(* clock) and while one moderator switches auto-translation on or off (the *)
(* actions of SpecCmd).  Chat messages arrive only while the client is     *)
(* there; handlers already under way go on after stop().                   *)

StopArrivals == 6      \* chat messages that arrive in one behaviour of SpecStop

StopMessages ==
    { [content |-> Command("auto", <<Mention("Bob"), Plain(a)>>), author |-> Author("mira", TRUE, "user")] :
        a \in {"on", "off"} }

(* The outcomes of the farewell message: sent at once, or failed on all    *)
(* attempts                                                                *)
FarewellFailures == {0, maxRetries}

(* saveAutoTranslateSettings() as called by stop(), and without it *)
SaveOnStopSkipped(users, file) == file

SaveOnStop(users, file) == SavedFile(users)

(* stop(), lines 609-627: everything after the farewell message *)
StopTail ==
    /\ client' = "null"
    /\ isRunning' = FALSE
    /\ operationQueue' = <<>>
    /\ activeOperations' = << >>
    /\ settingsFile' = SaveOnStop(autoTranslateUsers, settingsFile)
    /\ stopPc' = "returned"
    /\ stopSaw' = [active |-> ActiveSize(activeOperations), queued |-> Len(operationQueue),
                   unsaved |-> (IF settingsFile.exists THEN settingsFile.users ELSE {})
                                # autoTranslateUsers]

(* stop() is called: without a client the whole of it runs, with one it    *)
(* awaits sendMessage(farewell)                                            *)
StopBegins ==
    /\ stopPc = "none"
    /\ IF client = "null"
       THEN StopTail
       ELSE /\ stopPc' = "farewell"
            /\ UNCHANGED <<client, isRunning, operationQueue, activeOperations, settingsFile, stopSaw>>
    /\ UNCHANGED <<now, immediates, inHandler, nextSeq, skipped, ticks, rateVars, trVars, errVars,
                   shellVars, svcVars, detVars, callVars, safeVars, recVars, uiVars, autoTranslateUsers, errorCount, lastErrorReset, recoveries, op,
                   translatorCalls, sendLog, trip>>

(* sendMessage(farewell) ends after `failures` failed attempts: it returns *)
(* (handleError swallowed the error, if any) and stop() goes on, or it     *)
(* throws and so does stop()                                               *)
StopSaid(failures) ==
    /\ stopPc = "farewell"
    /\ now' = now + RetryWait(failures)
    /\ LET e == HandleError(errorCount, lastErrorReset, now', isRunning, FALSE)
       IN IF failures < maxRetries
          THEN /\ StopTail
               /\ UNCHANGED <<errorCount, lastErrorReset, recoveries>>
          ELSE /\ errorCount' = e.errorCount
               /\ lastErrorReset' = e.lastErrorReset
               /\ recoveries' = recoveries + (IF e.recover THEN 1 ELSE 0)
               /\ IF e.proceed
                  THEN StopTail
                  ELSE /\ stopPc' = "threw"
                       /\ UNCHANGED <<client, isRunning, operationQueue, activeOperations,
                                      settingsFile, stopSaw>>
    /\ UNCHANGED <<immediates, inHandler, nextSeq, skipped, ticks, rateVars, trVars, errVars,
                   shellVars, svcVars, detVars, callVars, safeVars, recVars, uiVars, autoTranslateUsers, op, translatorCalls, sendLog, trip>>

NextStop ==
    \/ \E u \in Senders(nextSeq) : client = "connected" /\ nextSeq <= StopArrivals /\ Arrive(u)
    \/ RunImmediate
    \/ \E task \in inHandler : Finish(task)
    \/ \E message \in StopMessages : client = "connected" /\ BeginOperation(message)
    \/ SayResult(0)
    \/ EndOperation
    \/ StopBegins
    \/ \E failures \in FarewellFailures : StopSaid(failures)

SpecStop == InitOps /\ [][NextStop]_vars

(* C14: at the moment stop() returns normally the running flag is false,   *)
(* there is no client, the map of active operations and the queue of       *)
(* pending operations are empty, and the users stored in the membership    *)
(* file are the members of the in-memory set.                              *)
StopReturns == stopPc # "returned" /\ stopPc' = "returned"

C14_Returned ==
    StopReturns
    => /\ ~isRunning'
       /\ client' = "null"
       /\ ActiveSize(activeOperations') = 0
       /\ operationQueue' = <<>>
       /\ settingsFile'.exists
       /\ settingsFile'.users = autoTranslateUsers'

----------------------------------------------------------------------------
(* SpecShell: the application shell (main.js).  The requests save-settings, *)
(* load-settings, start-bot and stop-bot come in any order; start-bot and  *)
(* stop-bot await the Bot Core, and further requests are served meanwhile. *)
(* Of a Bot Core instance the shell sees only whether start() and stop()   *)
(* return or throw.  The filesystem calls succeed.                         *)

MaxInstances == 2      \* Bot Core instances constructed in one behaviour of SpecShell
MaxStops == 1          \* calls of stop() under way at once on one instance

MinTokenLength == 10
MinClientIdLength == 5
MinNicknameLength == 3
MinChannelLength == 3

outsideShell == <<now, opsVars, rateVars, cmdVars, trVars, errVars, stopVars, svcVars, detVars, callVars, safeVars, recVars, uiVars>>

(* n times the character c *)
Rep(c, n) == [i \in 1..n |-> c]

IsWhitespace(c) == c \in {" ", "LF"}

(* String.prototype.trim *)
RECURSIVE TrimStart(_)
TrimStart(str) == IF str # <<>> /\ IsWhitespace(Head(str)) THEN TrimStart(Tail(str)) ELSE str

RECURSIVE TrimEnd(_)
TrimEnd(str) ==
    IF str # <<>> /\ IsWhitespace(str[Len(str)]) THEN TrimEnd(SubSeq(str, 1, Len(str) - 1)) ELSE str

StringTrim(str) == TrimEnd(TrimStart(str))

(* str.indexOf(c): counted from 0, -1 when c does not occur *)
IndexOf(str, c) ==
    IF \E i \in 1..Len(str) : str[i] = c
    THEN (CHOOSE i \in 1..Len(str) : str[i] = c /\ \A j \in 1..(i - 1) : str[j] # c) - 1
    ELSE -1

(* str.substring(from, to) and str.substring(from), counted from 0 *)
Substring(str, from, to) == SubSeq(str, from + 1, to)
SubstringFrom(str, from) == SubSeq(str, from + 1, Len(str))

(* str.split('\n') *)
RECURSIVE Split(_)
Split(str) ==
    LET lineEnd == IndexOf(str, "LF")
    IN IF lineEnd = -1 THEN <<str>>
       ELSE <<Substring(str, 0, lineEnd)>> \o Split(SubstringFrom(str, lineEnd + 1))

(* The template of lines 113-116: the name of a variable is one character  *)
(* of the model's strings                                                  *)
EnvContent(settings) ==
    <<"TWITCH_ACCESS_TOKEN", "=">> \o settings.accessToken
    \o <<"LF", "TWITCH_CLIENT_ID", "=">> \o settings.clientId
    \o <<"LF", "TWITCH_NICKNAME", "=">> \o settings.nickname
    \o <<"LF", "TWITCH_CHANNEL", "=">> \o settings.channel

(* !value *)
Falsy(value) == value = Undefined \/ value = <<>>

(* value.length < min, and the comparison with <= in its place *)
TooShortOffByOne(value, min) == Len(value) <= min

TooShort(value, min) == Len(value) < min

(* save-settings: the error of the first check that fails, "none" when the *)
(* record is accepted                                                      *)
SaveSettingsError(settings) ==
    IF \/ Falsy(settings.accessToken) \/ Falsy(settings.clientId)
       \/ Falsy(settings.nickname) \/ Falsy(settings.channel) THEN "empty field"
    ELSE IF TooShort(settings.accessToken, MinTokenLength) THEN "token too short"
    ELSE IF TooShort(settings.clientId, MinClientIdLength) THEN "client id too short"
    ELSE IF TooShort(settings.nickname, MinNicknameLength) THEN "nickname too short"
    ELSE IF TooShort(settings.channel, MinChannelLength) THEN "channel too short"
    ELSE "none"

(* load-settings: the body of lines.forEach *)
ParseLine(line, settings) ==
    LET trimmedLine == StringTrim(line)
        equalIndex == IndexOf(trimmedLine, "=")
        key == StringTrim(Substring(trimmedLine, 0, equalIndex))
        value == StringTrim(SubstringFrom(trimmedLine, equalIndex + 1))
    IN IF trimmedLine # <<>> /\ Head(trimmedLine) # "#" /\ equalIndex > 0
       THEN CASE key = <<"TWITCH_ACCESS_TOKEN">> -> [settings EXCEPT !.accessToken = value]
              [] key = <<"TWITCH_CLIENT_ID">> -> [settings EXCEPT !.clientId = value]
              [] key = <<"TWITCH_NICKNAME">> -> [settings EXCEPT !.nickname = value]
              [] key = <<"TWITCH_CHANNEL">> -> [settings EXCEPT !.channel = value]
              [] OTHER -> settings
       ELSE settings

RECURSIVE ParseLines(_, _)
ParseLines(lines, settings) ==
    IF lines = <<>> THEN settings ELSE ParseLines(Tail(lines), ParseLine(Head(lines), settings))

(* load-settings *)
LoadSettings(file) ==
    IF file = NoEnvFile THEN [success |-> FALSE, data |-> NoSettings]
    ELSE [success |-> TRUE, data |-> ParseLines(Split(file), NoSettings)]

(* require('dotenv').config({ path }): the file is parsed into NAME=value   *)
(* pairs, the value trimmed (for lines without quotes and "#" the pairs    *)
(* are those of ParseLines), and a pair is put into process.env only when  *)
(* process.env has no variable of that name yet                            *)
DotenvParse(content) == ParseLines(Split(content), NoSettings)

KeepOrSet(old, parsed) == IF old # Undefined THEN old ELSE parsed

DotenvConfig(content, env) ==
    LET parsed == DotenvParse(content)
    IN [accessToken |-> KeepOrSet(env.accessToken, parsed.accessToken),
        clientId |-> KeepOrSet(env.clientId, parsed.clientId),
        nickname |-> KeepOrSet(env.nickname, parsed.nickname),
        channel |-> KeepOrSet(env.channel, parsed.channel)]

(* start-bot: the checks of lines 189-196 on the values of process.env *)
StartBotError(env) ==
    IF \/ Falsy(env.accessToken) \/ Falsy(env.clientId)
       \/ Falsy(env.nickname) \/ Falsy(env.channel) THEN "missing settings"
    ELSE IF \/ TooShort(env.accessToken, MinTokenLength) \/ TooShort(env.clientId, MinClientIdLength)
            \/ TooShort(env.nickname, MinNicknameLength) \/ TooShort(env.channel, MinChannelLength)
    THEN "invalid format"
    ELSE "none"

(* The records the UI may send to save-settings *)
GoodSettings ==
    [accessToken |-> Rep("a", 10), clientId |-> Rep("c", 5), nickname |-> Rep("n", 3),
     channel |-> Rep("x", 3)]

SettingsInputs ==
    { [GoodSettings EXCEPT !.accessToken = t] : t \in {<<>>, Rep("a", 9), Rep("a", 10)} }
    \cup { [GoodSettings EXCEPT !.clientId = Rep("c", 4)],
           [GoodSettings EXCEPT !.nickname = Rep("n", 2)],
           [GoodSettings EXCEPT !.channel = Rep("x", 2)],
           [GoodSettings EXCEPT !.channel = Rep("y", 3)],                \* another channel
           [GoodSettings EXCEPT !.nickname = <<"b", "o", "b", " ">>] }   \* "bob" and a space

(* ipcMain.handle('save-settings') *)
SaveSettings(settings) ==
    /\ LET error == SaveSettingsError(settings)
       IN /\ IF error = "none"
             THEN /\ envFile' = EnvContent(settings)
                  /\ lastSaved' = settings
             ELSE UNCHANGED <<envFile, lastSaved>>
          /\ reply' = [req |-> "save-settings", settings |-> settings, success |-> error = "none",
                       error |-> error]
    /\ UNCHANGED <<processEnv, bot, botRunning, instances, outsideShell>>

(* ipcMain.handle('load-settings') *)
LoadSettingsRequest ==
    /\ reply' = [req |-> "load-settings", result |-> LoadSettings(envFile)]
    /\ UNCHANGED <<envFile, lastSaved, processEnv, bot, botRunning, instances, outsideShell>>

Rejected(req, error) == [req |-> req, success |-> FALSE, error |-> error]

(* ipcMain.handle('start-bot') up to `await bot.start()` *)
StartBot ==
    /\ IF botRunning
       THEN /\ reply' = Rejected("start-bot", "already running")
            /\ UNCHANGED <<processEnv, bot, instances>>
       ELSE IF envFile = NoEnvFile
       THEN /\ reply' = Rejected("start-bot", "settings not found")
            /\ UNCHANGED <<processEnv, bot, instances>>
       ELSE LET env == DotenvConfig(envFile, processEnv)
            IN /\ processEnv' = env
               /\ IF StartBotError(env) # "none"
                  THEN /\ reply' = Rejected("start-bot", StartBotError(env))
                       /\ UNCHANGED <<bot, instances>>
                  ELSE /\ Len(instances) < MaxInstances
                       /\ instances' = Append(instances,
                              [credentials |-> env, start |-> "awaiting", stopped |-> FALSE,
                               isRunning |-> FALSE,
                               stops |-> 0, stored |-> LoadSettings(envFile).data,
                               alone |-> \A j \in 1..Len(instances) :
                                            \/ instances[j].start = "rejected"
                                            \/ instances[j].stopped /\ instances[j].stops = 0])
                       /\ bot' = Len(instances) + 1
                       /\ UNCHANGED reply
    /\ UNCHANGED <<envFile, lastSaved, botRunning, outsideShell>>

(* start-bot: bot.start() of instance i returns (lines 208-210) or throws  *)
(* (lines 211-216)                                                         *)
StartSettles(i, ok) ==
    /\ instances[i].start = "awaiting"
    /\ IF ok
       THEN /\ instances' = [instances EXCEPT ![i].start = "resolved", ![i].isRunning = TRUE]
            /\ botRunning' = TRUE
            /\ reply' = [req |-> "start-bot", success |-> TRUE, error |-> "none"]
            /\ UNCHANGED bot
       ELSE /\ instances' = [instances EXCEPT ![i].start = "rejected"]
            /\ bot' = 0
            /\ botRunning' = FALSE
            /\ reply' = Rejected("start-bot", "start failed")
    /\ UNCHANGED <<envFile, lastSaved, processEnv, outsideShell>>

(* ipcMain.handle('stop-bot') up to `await bot.stop()` *)
StopBot ==
    /\ IF ~botRunning \/ bot = 0
       THEN /\ reply' = Rejected("stop-bot", "not running")
            /\ UNCHANGED instances
       ELSE /\ instances[bot].stops < MaxStops
            /\ instances' = [instances EXCEPT ![bot].stops = @ + 1]
            /\ UNCHANGED reply
    /\ UNCHANGED <<envFile, lastSaved, processEnv, bot, botRunning, outsideShell>>

(* stop-bot: bot.stop() of instance i returns (lines 227-235; the window  *)
(* that made the request is there, `pushed` is what is sent to it) or     *)
(* throws                                                                 *)
StopSettles(i, ok) ==
    /\ instances[i].stops > 0
    /\ IF ok
       THEN /\ instances' = [instances EXCEPT ![i].stops = @ - 1, ![i].stopped = TRUE,
                                              ![i].isRunning = FALSE]
            /\ bot' = 0
            /\ botRunning' = FALSE
            /\ reply' = [req |-> "stop-bot", success |-> TRUE, error |-> "none",
                         pushed |-> <<"bot-stopped">>]
       ELSE /\ instances' = [instances EXCEPT ![i].stops = @ - 1]
            /\ reply' = Rejected("stop-bot", "stop failed")
            /\ UNCHANGED <<bot, botRunning>>
    /\ UNCHANGED <<envFile, lastSaved, processEnv, outsideShell>>

NextShell ==
    \/ \E settings \in SettingsInputs : SaveSettings(settings)
    \/ LoadSettingsRequest
    \/ StartBot
    \/ \E i \in 1..Len(instances), ok \in BOOLEAN : StartSettles(i, ok)
    \/ StopBot
    \/ \E i \in 1..Len(instances), ok \in BOOLEAN : StopSettles(i, ok)

SpecShell == InitOps /\ [][NextShell]_vars

(* C15: under any interleaving of start-bot and stop-bot requests at most  *)
(* one Bot Core instance is connecting or connected: a start-bot request   *)
(* that comes while a bot session exists constructs no instance.           *)
Live(i) == instances[i].start \in {"awaiting", "resolved"} /\ ~instances[i].stopped

C15_OneSession == Cardinality({i \in 1..Len(instances) : Live(i)}) <= 1

(* C16: a Bot Core whose start-bot request succeeded was constructed with  *)
(* the four values the credentials file held at that time (as              *)
(* load-settings reads them), those of the latest successful save.  Only   *)
(* the instances constructed while no other session existed are looked at. *)
C16_StoredCredentials ==
    \A i \in 1..Len(instances) :
        instances[i].start = "resolved" /\ instances[i].alone
        => instances[i].credentials = instances[i].stored

(* C17: save-settings rejects a record exactly when a field is empty or    *)
(* shorter than its minimum (token 10, client id 5, nickname 3, channel    *)
(* 3), and a rejected save leaves the credentials file as it was.          *)
MeetsMinimums(settings) ==
    /\ Len(settings.accessToken) >= 10
    /\ Len(settings.clientId) >= 5
    /\ Len(settings.nickname) >= 3
    /\ Len(settings.channel) >= 3

C17_Save ==
    reply'.req = "save-settings"
    => /\ reply'.success <=> MeetsMinimums(reply'.settings)
       /\ ~reply'.success => envFile' = envFile

C17_RejectExactly == [][C17_Save]_vars

(* A token of 9 characters has been rejected while a file existed, the     *)
(* other fields meeting their minimums                                     *)
C17_NineRejected ==
    /\ reply = [req |-> "save-settings", settings |-> [GoodSettings EXCEPT !.accessToken = Rep("a", 9)],
                success |-> FALSE, error |-> "token too short"]
    /\ envFile = EnvContent(GoodSettings)

(* C18: a load-settings that follows an accepted save-settings returns the *)
(* four values of the saved record.                                        *)
C18_LoadReturnsSaved ==
    reply.req = "load-settings" /\ lastSaved # NoSettings
    => reply.result.success /\ reply.result.data = lastSaved

(***************************************************************************)
(* The cache of the Translation Service (translator_advanced.js).          *)
(*                                                                         *)
(* A cache key `${processedText}_${sourceLang}_${targetLang}` is the       *)
(* number of the text it is made of; distinct numbers are distinct keys.   *)
(* this.cache is a Map: the sequence of its entries in insertion order,    *)
(* each [key, value, timestamp]; Map.set on a key that is present          *)
(* replaces the entry where it stands.                                     *)
(***************************************************************************)
entriesToDelete == (maxCacheSize * 2) \div 10   \* Math.floor(this.maxCacheSize * 0.2)

(* The text the translation API returns for the text of a key, after       *)
(* postprocessText: a non-empty string                                     *)
Translation(key) == <<"translation of text", key>>

(* Map.get / Map.delete: where the entry of a key stands, 0 if nowhere *)
IndexOfKey(m, key) ==
    IF \E i \in 1..Len(m) : m[i].key = key
    THEN CHOOSE i \in 1..Len(m) : m[i].key = key
    ELSE 0

RemoveAt(m, i) == SubSeq(m, 1, i - 1) \o SubSeq(m, i + 1, Len(m))

(* Date.now() - entry.timestamp > this.maxCacheAge *)
ExpiredByCleanupInterval(entry, t) == t - entry.timestamp > cleanupInterval

Expired(entry, t) == t - entry.timestamp > maxCacheAge

(* getCacheValue(key) at time t: the cache it leaves, what it returns, and *)
(* by how much it raises stats.cacheEvictions                              *)
getCacheValue(m, key, t) ==
    LET i == IndexOfKey(m, key)
    IN IF i = 0
       THEN [cache |-> m, value |-> Null, evicted |-> 0]
       ELSE IF Expired(m[i], t)
       THEN [cache |-> RemoveAt(m, i), value |-> Null, evicted |-> 1]
       ELSE [cache |-> m, value |-> m[i].value, evicted |-> 0]

(* The order of entries.sort((a, b) => a[1].timestamp - b[1].timestamp),   *)
(* a stable sort: of two entries of one timestamp the one that stands      *)
(* first in the Map stays first                                            *)
OlderByInsertion(a, b) == a.index < b.index

Older(a, b) ==
    \/ a.timestamp < b.timestamp
    \/ a.timestamp = b.timestamp /\ a.index < b.index

(* evictOldestEntries() *)
evictOldestEntries(m) ==
    LET entries == [i \in 1..Len(m) |-> [key |-> m[i].key, timestamp |-> m[i].timestamp, index |-> i]]
        sorted == SortSeq(entries, Older)
        count == IF entriesToDelete < Len(sorted) THEN entriesToDelete ELSE Len(sorted)
        deleted == {sorted[i].key : i \in 1..count}
    IN [cache |-> SelectSeq(m, LAMBDA entry : entry.key \notin deleted), evicted |-> count]

(* setCacheWithTimestamp(key, value) at time t *)
setCacheWithTimestamp(m, key, value, t) ==
    LET room == IF Len(m) >= maxCacheSize THEN evictOldestEntries(m) ELSE [cache |-> m, evicted |-> 0]
        entry == [key |-> key, value |-> value, timestamp |-> t]
        i == IndexOfKey(room.cache, key)
    IN [cache |-> IF i = 0 THEN Append(room.cache, entry) ELSE [room.cache EXCEPT ![i] = entry],
        evicted |-> room.evicted]

(* cleanupExpiredEntries() at time t *)
cleanupExpiredEntries(m, t) ==
    LET kept == SelectSeq(m, LAMBDA entry : ~Expired(entry, t))
    IN [cache |-> kept, evicted |-> Len(m) - Len(kept)]

(* The age of the entry translate() finds under a key, -1 if it finds none *)
AgeOf(m, key, t) ==
    IF IndexOfKey(m, key) = 0 THEN -1 ELSE t - m[IndexOfKey(m, key)].timestamp

outsideSvc == <<opsVars, rateVars, cmdVars, trVars, errVars, stopVars, shellVars, detVars, callVars, safeVars, recVars, uiVars>>

(* translate(text, targetLang, sourceLang) up to its first await: the      *)
(* cache is consulted; a hit returns at once, a miss goes on to            *)
(* performTranslationWithRateLimit, that is, to the translation API        *)
ServiceTranslate(key) ==
    LET got == getCacheValue(cache, key, now)
    IN /\ cache' = got.cache
       /\ lastRead' = [n |-> lastRead.n + 1, key |-> key, value |-> got.value,
                       age |-> AgeOf(cache, key, now)]
       /\ IF got.value # Null
          THEN /\ stats' = [stats EXCEPT !.cacheHits = @ + 1]
               /\ apiQueue' = apiQueue
          ELSE /\ stats' = [stats EXCEPT !.cacheEvictions = @ + got.evicted]
               /\ apiQueue' = Append(apiQueue, key)
       /\ UNCHANGED <<now, nextCleanup, outsideSvc>>

(* translate() after its await.  The requests are served one at a time in  *)
(* the order they were made (processQueue); `latency` after the previous   *)
(* step the oldest one is answered: with a text, which is cached, or with  *)
(* no text or an error, which is counted.  A timer that is due runs        *)
(* before more time passes.                                                *)
TranslationReturns(latency, ok) ==
    /\ apiQueue # <<>>
    /\ now < nextCleanup
    /\ now' = now + latency
    /\ apiQueue' = Tail(apiQueue)
    /\ IF ok
       THEN LET key == Head(apiQueue)
                set == setCacheWithTimestamp(cache, key, Translation(key), now')
            IN /\ cache' = set.cache
               /\ stats' = [stats EXCEPT !.translations = @ + 1, !.cacheEvictions = @ + set.evicted]
       ELSE /\ cache' = cache
            /\ stats' = [stats EXCEPT !.errors = @ + 1]
    /\ UNCHANGED <<lastRead, nextCleanup, outsideSvc>>

(* startCacheCleanup(): the interval timer runs cleanupExpiredEntries() *)
CleanupTimer ==
    /\ now >= nextCleanup
    /\ LET cleaned == cleanupExpiredEntries(cache, now)
       IN /\ cache' = cleaned.cache
          /\ stats' = [stats EXCEPT !.cacheEvictions = @ + cleaned.evicted]
    /\ nextCleanup' = now + cleanupInterval
    /\ UNCHANGED <<now, apiQueue, lastRead, outsideSvc>>

(* Nothing happens for d milliseconds *)
CacheTick(d) ==
    /\ now < nextCleanup
    /\ now' = now + d
    /\ UNCHANGED <<cache, stats, apiQueue, lastRead, nextCleanup, outsideSvc>>

(***************************************************************************)
(* SpecCache: a few texts are translated again and again while the         *)
(* entries age.                                                            *)
(***************************************************************************)
CacheTexts == 2            \* distinct cache keys in one behaviour of SpecCache
MaxCalls == 4              \* calls of translate() in one behaviour of SpecCache
MaxCacheTime == 7300000    \* SpecCache lets no time pass beyond this clock value
ApiLatency == 2000         \* milliseconds from one answer of the translation API to the next

CacheGaps == {maxCacheAge \div 2, maxCacheAge}

NextCache ==
    \/ \E key \in 1..CacheTexts : lastRead.n < MaxCalls /\ ServiceTranslate(key)
    \/ \E ok \in BOOLEAN : TranslationReturns(ApiLatency, ok)
    \/ CleanupTimer
    \/ \E d \in CacheGaps : now + d <= MaxCacheTime /\ CacheTick(d)

SpecCache == InitOps /\ [][NextCache]_vars

(* C19: a call of translate() that finds an entry younger than             *)
(* maxCacheAge returns the entry's value, raises stats.cacheHits by one    *)
(* and makes no request to the translation API; one that finds an entry    *)
(* older than maxCacheAge goes on as if there were none (no value          *)
(* returned, no hit counted, the API asked) and the entry is gone from     *)
(* the cache.                                                              *)
C19_Read ==
    lastRead'.n # lastRead.n =>
        LET key == lastRead'.key
            i == IndexOfKey(cache, key)
        IN i # 0 =>
            /\ now - cache[i].timestamp < maxCacheAge =>
                   /\ lastRead'.value = cache[i].value
                   /\ lastRead'.value # Null
                   /\ stats'.cacheHits = stats.cacheHits + 1
                   /\ apiQueue' = apiQueue
                   /\ cache' = cache
            /\ now - cache[i].timestamp > maxCacheAge =>
                   /\ lastRead'.value = Null
                   /\ stats'.cacheHits = stats.cacheHits
                   /\ apiQueue' = Append(apiQueue, key)
                   /\ IndexOfKey(cache', key) = 0
                   /\ Len(cache') = Len(cache) - 1

C19_AgeLimit == [][C19_Read]_vars

(* C19, witness: after an earlier hit on a young entry, the latest call    *)
(* found an entry past its age limit, returned nothing at once and left    *)
(* the cache without an entry of that key.                                 *)
C19_ReadBothSides ==
    /\ lastRead.age > maxCacheAge
    /\ lastRead.value = Null
    /\ IndexOfKey(cache, lastRead.key) = 0
    /\ stats.cacheHits > 0
    /\ stats.cacheEvictions > 0

(***************************************************************************)
(* SpecFill: text after text is translated until the cache is full and     *)
(* beyond, the n-th call asking for text n.  One text may be asked for     *)
(* again while its first translation is under way, so that an entry that   *)
(* stands before another in the Map can be the newer of the two.           *)
(***************************************************************************)
MaxFillCalls == 1003       \* calls of translate() in one behaviour of SpecFill
MaxInFlight == 3           \* calls of translate() that await the API at once in SpecFill
RepeatWindow == 2          \* calls, from the one for RepeatedText on, that may be followed by a repeat

RepeatedText == entriesToDelete

FillKeys ==
    {lastRead.n + 1} \cup
        (IF lastRead.n >= RepeatedText /\ lastRead.n < RepeatedText + RepeatWindow
         THEN {RepeatedText}
         ELSE {})

NextFill ==
    \/ \E key \in FillKeys :
           /\ lastRead.n < MaxFillCalls
           /\ Len(apiQueue) < MaxInFlight
           /\ ServiceTranslate(key)
    \/ TranslationReturns(ApiLatency, TRUE)
    \/ CleanupTimer

SpecFill == InitOps /\ [][NextFill]_vars

(* C20: the cache never holds more than 1000 entries; and when a key that  *)
(* is not in the cache is inserted while the cache holds 1000 entries,     *)
(* exactly 200 entries go, none of them newer (by timestamp) than an entry *)
(* of before that stays, and the cache holds 801 entries afterwards, the   *)
(* new one among them.                                                     *)
C20_Insert ==
    ( /\ apiQueue # <<>>
      /\ stats'.translations = stats.translations + 1
      /\ Len(cache) = 1000
      /\ IndexOfKey(cache, Head(apiQueue)) = 0 ) =>
        \E gone \in {SelectSeq(cache, LAMBDA entry : IndexOfKey(cache', entry.key) = 0)} :
        \E kept \in {SelectSeq(cache, LAMBDA entry : IndexOfKey(cache', entry.key) # 0)} :
           /\ Len(cache') = 801
           /\ IndexOfKey(cache', Head(apiQueue)) # 0
           /\ Len(gone) = 200
           /\ Len(kept) = 800
           /\ \A i \in 1..Len(gone) : \A j \in 1..Len(kept) :
                  gone[i].timestamp <= kept[j].timestamp

C20_SizeLimit == [][Len(cache') <= 1000 /\ C20_Insert]_vars

(* C20, witness: the insertion into the full cache has happened, 200       *)
(* entries went and 801 are left; the entry of the repeated text stood     *)
(* 200th in the Map but was renewed after the 201st was cached, so it      *)
(* stays, now first, and the entry that stood 201st is gone.               *)
C20_EvictedTwoHundred ==
    /\ Len(cache) = 801
    /\ stats.cacheEvictions = 200
    /\ cache[1].key = 200
    /\ IndexOfKey(cache, 201) = 0

(***************************************************************************)
(* SpecDetect: the two language detectors applied to the same texts.       *)
(*                                                                         *)
(* A text is the record of how many of its characters are white space      *)
(* (pad), match [a-zA-Z] (lat), match [а-яё] without regard to case        *)
(* (cyr), match [ñáéíóúü¿¡] (spa), or are anything else (oth).             *)
(***************************************************************************)
MaxLetters == 2            \* characters of each class in a text of SpecDetect
ServiceMinLength == 3      \* translator_advanced.js, detectLanguage: text.length < 3

(* AdvancedTranslationService.detectLanguage(text) *)
ServiceDetectLanguageAnyLength(text) ==
    LET totalChars == text.lat + text.cyr
    IN IF totalChars = 0 THEN "null"
       ELSE IF PercentOver(text.cyr, totalChars, 50) THEN "ru"
       ELSE IF PercentOver(text.lat, totalChars, 50) THEN "en"
       ELSE "null"

ServiceDetectLanguage(text) ==
    LET totalChars == text.lat + text.cyr
    IN IF Length(text) < ServiceMinLength THEN "null"
       ELSE IF totalChars = 0 THEN "null"
       ELSE IF PercentOver(text.cyr, totalChars, 50) THEN "ru"
       ELSE IF PercentOver(text.lat, totalChars, 50) THEN "en"
       ELSE "null"

DetectTexts ==
    { Text(pad, lat, cyr, spa, oth) :
          pad \in 0..MaxLetters, lat \in 0..MaxLetters, cyr \in 0..MaxLetters,
          spa \in 0..MaxLetters, oth \in 0..MaxLetters }

outsideDet == <<now, opsVars, rateVars, cmdVars, trVars, errVars, stopVars, shellVars, svcVars, callVars, safeVars, recVars, uiVars>>

Detect(text) ==
    /\ sample' = text
    /\ detected' = [bot |-> DetectLanguage(text), service |-> ServiceDetectLanguage(text)]
    /\ UNCHANGED outsideDet

NextDetect == \E text \in DetectTexts : Detect(text)

SpecDetect == InitOps /\ [][NextDetect]_vars

(* C21: a text without any Latin or Cyrillic letter, or shorter than the   *)
(* detector's minimum length (3 in the Translation Service, 2 in the Bot   *)
(* Core), is given no language by that detector.                           *)
C21_Undetermined ==
    sample # NoSample =>
        /\ (sample.lat + sample.cyr = 0 \/ Length(sample) < 3) => detected.service = "null"
        /\ (sample.lat + sample.cyr = 0 \/ Length(sample) < 2) => detected.bot = "null"

(* C21, witness: a text long enough for both detectors, with Spanish       *)
(* marks but no Latin or Cyrillic letter, got no language from either.     *)
C21_SpanishMarksOnly ==
    /\ sample # NoSample
    /\ sample.lat + sample.cyr = 0
    /\ sample.spa > 0
    /\ Length(sample) >= 3
    /\ detected = [bot |-> "null", service |-> "null"]

(***************************************************************************)
(* SpecQueue: the request queue of the Translation Service under every     *)
(* outcome of the translation API, a failure without a message included.   *)
(* SpecQueueFair adds what the event loop guarantees: a timer that is due  *)
(* fires, and a call of the translation API settles one way or another.    *)
(***************************************************************************)
MaxQueued == 2             \* requests enqueued in one behaviour of SpecQueue

(* How long a call of the translation API takes in SpecQueue *)
QueueLatencies == {PaceDelay * 50, StaleRequestAge + 1}

EnqueueRequest == PerformTranslationWithRateLimit(MaxQueued)

ApiSettles ==
    \/ \E latency \in QueueLatencies, outcome \in ApiOutcomes : ApiReturns(latency, outcome)
    \/ \E latency \in QueueLatencies : ApiFailsWithoutMessage(latency)

NextQueue ==
    \/ EnqueueRequest
    \/ SleepDone
    \/ \E latency \in QueueLatencies, outcome \in ApiOutcomes : ApiReturns(latency, outcome)
    \/ \E latency \in QueueLatencies : ApiFailsWithoutMessage(latency)
    \/ \E d \in IdleGaps : Idle(d)

SpecQueue == InitRateSpec /\ [][NextQueue]_vars

SpecQueueFair == SpecQueue /\ WF_vars(SleepDone) /\ WF_vars(ApiSettles)

(* C22: every request that was enqueued is resolved or rejected at some    *)
(* later time, whatever the translation API answers.                       *)
C22_EventuallySettled == \A id \in 1..MaxQueued : (id \in pending) ~> (id \notin pending)

(* The ids of the requests in a queue, and the enqueue time of a request   *)
(* that is in the queue or is being enqueued by this step                  *)
QueuedIds(q) == {q[i].id : i \in 1..Len(q)}

EnqueuedAt(id) ==
    IF id \in QueuedIds(requestQueue)
    THEN requestQueue[CHOOSE i \in 1..Len(requestQueue) : requestQueue[i].id = id].timestamp
    ELSE now

(* A step takes request id from the queue: it was in the queue, or is      *)
(* pushed by this very step, and is not in the queue afterwards            *)
Dequeued(id) ==
    /\ id \notin QueuedIds(requestQueue')
    /\ \/ id \in QueuedIds(requestQueue)
       \/ id = nextReq /\ nextReq' # nextReq

(* C23: a request that is more than 30 seconds old when it is taken from   *)
(* the queue is rejected with a timeout and not sent to the translation    *)
(* API, also when it had been put back after a network failure; and a      *)
(* request sent to the API is never older than that.                       *)
C23_Dequeue ==
    /\ \A id \in 1..MaxQueued :
           (Dequeued(id) /\ now' - EnqueuedAt(id) > 30000) =>
               /\ [id |-> id, how |-> "timeout"] \in settled'
               /\ id \notin pending'
               /\ cur'.id # id
    /\ inFlight' > inFlight => now' - cur'.timestamp <= 30000

C23_StaleNeverSent == [][C23_Dequeue]_vars

(* C23, witness: the only request made so far was sent once, put back      *)
(* after a network failure, and has now been rejected with a timeout.      *)
C23_RetriedThenStale ==
    /\ nextReq = 2
    /\ Len(dispatchLog) = 1
    /\ settled = {[id |-> 1, how |-> "timeout"]}
    /\ pending = {}

(* C24: when a call of the translation API fails with a message that       *)
(* contains "network" or "timeout", the request stands at the front of     *)
(* the queue, its caller neither resolved nor rejected, it stays there     *)
(* until the loop goes on, and it is then the first request taken from     *)
(* the queue; when the call fails with another message, the caller is      *)
(* rejected and the request is not in the queue.                           *)
C24_Failure ==
    /\ (pc = "api" /\ lastOutcome' = "network") =>
           /\ requestQueue' # <<>>
           /\ Head(requestQueue') = cur
           /\ cur.id \in pending'
           /\ \A how \in {"resolved", "rejected", "timeout"} : [id |-> cur.id, how |-> how] \notin settled'
    /\ (lastOutcome = "network" /\ lastOutcome' = "network") =>
           /\ requestQueue' # <<>>
           /\ Head(requestQueue') = Head(requestQueue)
    /\ (lastOutcome = "network" /\ lastOutcome' # "network") =>
           /\ Dequeued(Head(requestQueue).id)
           /\ \/ cur' = Head(requestQueue) /\ pc' = "api"
              \/ [id |-> Head(requestQueue).id, how |-> "timeout"] \in settled'
    /\ (pc = "api" /\ lastOutcome' = "other") =>
           /\ [id |-> cur.id, how |-> "rejected"] \in settled'
           /\ cur.id \notin pending'
           /\ cur.id \notin QueuedIds(requestQueue')

C24_RetryAtFront == [][C24_Failure]_vars

(* C24, witness: request 1 failed with a network error while request 2     *)
(* was waiting; request 1 stands before request 2 and both callers wait.   *)
C24_PutBackBeforeWaiting ==
    /\ lastOutcome = "network"
    /\ Len(requestQueue) = 2
    /\ requestQueue[1].id = 1
    /\ requestQueue[2].id = 2
    /\ pending = {1, 2}

(* C25: at any time at most one invocation of processQueue is inside its   *)
(* loop and at most one call of the translation API is under way, however  *)
(* many requests have been made meanwhile.                                 *)
C25_SingleConsumer ==
    /\ loops <= 1
    /\ inFlight <= 1
    /\ inFlight = 1 => loops = 1
    /\ loops = 1 => isProcessingQueue

(* C25, witness: a second request came while the first was at the          *)
(* translation API; it waits in the queue and the one loop goes on alone.  *)
C25_SecondCallWaits ==
    /\ loops = 1
    /\ inFlight = 1
    /\ cur.id = 1
    /\ Len(requestQueue) = 1
    /\ pending = {1, 2}

(***************************************************************************)
(* SpecTranslate: translate() of the Translation Service from the call to  *)
(* the return, for texts that normalise to nothing, texts without a        *)
(* detectable language, and every way the request queue can answer.  The   *)
(* behaviours end before the cache clean-up timer is first due.            *)
(***************************************************************************)
MaxTranslateCalls == 3     \* calls of translate() in one behaviour of SpecTranslate
MaxRetries == 1            \* network failures of one request before its final answer

outsideCall == <<opsVars, rateVars, cmdVars, trVars, errVars, stopVars, shellVars, detVars, safeVars, recVars, uiVars>>

(* preprocessText(text): trim() takes the white space at the ends away     *)
PreprocessText(text) == Trim(text)

(* The arguments of a call: the text, and whether sourceLang is given *)
TranslateInputs ==
    { [text |-> text, sourceLang |-> sourceLang] :
          text \in {Text(2, 0, 0, 0, 0), Text(1, 0, 0, 0, 3), Text(0, 3, 0, 0, 0)},
          sourceLang \in {"en", "undefined"} }

(* `${processedText}_${sourceLang}_${targetLang}` *)
ServiceCacheKey(processedText, sourceLang) == [text |-> processedText, sourceLang |-> sourceLang]

(* What the request queue can answer to performTranslationWithRateLimit:   *)
(* a result with a text, a result without one, a rejection with the API's  *)
(* error, a rejection with Error('Request timeout'), or, after a failure   *)
(* without a message, nothing ever                                         *)
QueueAnswers == {"text", "empty", "failure", "stale", "no message"}

(* The catch block of translate(): `error.message` is read, which throws   *)
(* when the rejection value is null or undefined                           *)
TranslateCatch(error) == IF error.nullish THEN "threw" ELSE "null"

(* The value a promise of the queue is rejected with: always an Error      *)
RejectionValue(answer) == [nullish |-> FALSE, message |-> answer]

(* translate(text, sourceLang, targetLang) up to its first await or return *)
TranslateBegins(input) ==
    LET n == Len(callLog) + 1
        processedText == PreprocessText(input.text)
        cacheKey == ServiceCacheKey(processedText, input.sourceLang)
        got == getCacheValue(cache, cacheKey, now)
        call == [before |-> stats.errors, result |-> "pending"]
    IN /\ n <= MaxTranslateCalls
       /\ IF Length(processedText) = 0
          THEN /\ stats' = [stats EXCEPT !.errors = @ + 1]
               /\ callLog' = Append(callLog, [call EXCEPT !.result = "null"])
               /\ UNCHANGED <<cache, apiQueue, waiting, lastRead>>
          ELSE /\ cache' = got.cache
               /\ lastRead' = [n |-> lastRead.n + 1, key |-> cacheKey, value |-> got.value,
                               age |-> AgeOf(cache, cacheKey, now)]
               /\ IF got.value # Null
                  THEN /\ stats' = [stats EXCEPT !.cacheHits = @ + 1]
                       /\ callLog' = Append(callLog, [call EXCEPT !.result = "text"])
                       /\ UNCHANGED <<apiQueue, waiting>>
                  ELSE IF input.sourceLang = "undefined" /\ ServiceDetectLanguage(processedText) = "null"
                  THEN /\ stats' = [stats EXCEPT !.cacheEvictions = @ + got.evicted, !.errors = @ + 1]
                       /\ callLog' = Append(callLog, [call EXCEPT !.result = "null"])
                       /\ UNCHANGED <<apiQueue, waiting>>
                  ELSE /\ stats' = [stats EXCEPT !.cacheEvictions = @ + got.evicted]
                       /\ callLog' = Append(callLog, call)
                       /\ apiQueue' = Append(apiQueue, cacheKey)
                       /\ waiting' = Append(waiting, n)
       /\ UNCHANGED <<now, nextCleanup, outsideCall>>

(* The request of the oldest waiting call gets its answer `latency` ms     *)
(* after the previous step, after `retries` network failures (each counted *)
(* by processQueue); translate() goes on after its await, or never does.   *)
TranslateSettles(latency, retries, answer) ==
    /\ waiting # <<>>
    /\ now' = now + latency
    /\ apiQueue' = Tail(apiQueue)
    /\ waiting' = Tail(waiting)
    /\ LET n == Head(waiting)
           key == Head(apiQueue)
           set == setCacheWithTimestamp(cache, key, Translation(key), now')
       IN CASE answer = "text" ->
                   /\ cache' = set.cache
                   /\ stats' = [stats EXCEPT !.translations = @ + 1,
                                             !.cacheEvictions = @ + set.evicted,
                                             !.errors = @ + retries]
                   /\ callLog' = [callLog EXCEPT ![n].result = "text"]
            [] answer = "empty" ->
                   /\ cache' = cache
                   /\ stats' = [stats EXCEPT !.errors = @ + retries + 1]
                   /\ callLog' = [callLog EXCEPT ![n].result = "null"]
            [] answer = "failure" ->
                   \* processQueue counts the failure and rejects; translate() catches
                   /\ cache' = cache
                   /\ stats' = [stats EXCEPT !.errors = @ + retries + 2]
                   /\ callLog' = [callLog EXCEPT ![n].result = TranslateCatch(RejectionValue(answer))]
            [] answer = "stale" ->
                   /\ cache' = cache
                   /\ stats' = [stats EXCEPT !.errors = @ + retries + 1]
                   /\ callLog' = [callLog EXCEPT ![n].result = TranslateCatch(RejectionValue(answer))]
            [] answer = "no message" ->
                   \* processQueue counts the failure and settles nothing
                   /\ cache' = cache
                   /\ stats' = [stats EXCEPT !.errors = @ + retries + 1]
                   /\ callLog' = callLog
    /\ UNCHANGED <<lastRead, nextCleanup, outsideCall>>

AnswerArrives ==
    \E retries \in 0..MaxRetries, answer \in QueueAnswers : TranslateSettles(ApiLatency, retries, answer)

NextTranslate ==
    \/ \E input \in TranslateInputs : TranslateBegins(input)
    \/ \E retries \in 0..MaxRetries, answer \in QueueAnswers : TranslateSettles(ApiLatency, retries, answer)

SpecTranslate == InitOps /\ [][NextTranslate]_vars

SpecTranslateFair == SpecTranslate /\ WF_vars(AnswerArrives)

(* C26: every call of translate() that fails returns, it returns no        *)
(* translation rather than throwing, and stats.errors is then larger than  *)
(* it was when the call was made.                                          *)
C26_Return ==
    \A n \in 1..Len(callLog') :
        (callLog'[n].result # "text" /\ (n > Len(callLog) \/ callLog[n].result = "pending")) =>
            \/ callLog'[n].result = "pending"
            \/ callLog'[n].result = "null" /\ stats'.errors > callLog'[n].before

C26_Returns ==
    \A n \in 1..MaxTranslateCalls :
        (n <= Len(callLog) /\ callLog[n].result = "pending")
            ~> (n <= Len(callLog) /\ callLog[n].result # "pending")

C26_NeverThrows == [][C26_Return]_vars /\ C26_Returns

----------------------------------------------------------------------------
(* SpecSafe: safeExecute(operation, context, retries = this.maxRetries)    *)
(* with an operation that fulfils or rejects, one call at a time.  In      *)
(* `safeCall`, attempt is the loop variable, invoked counts the calls of       *)
(* operation(), failed those that rejected, handled the calls of           *)
(* handleError, proceed what the latest of these returned.                 *)

MaxSafeCalls == 12    \* SpecSafe makes no further call of safeExecute after this many

outsideSafe == <<opsVars, rateVars, trVars, errVars, stopVars, shellVars, svcVars, detVars, callVars, recVars, uiVars,
                 autoTranslateUsers, settingsFile, client, isRunning, op, translatorCalls, sendLog, trip>>

(* if (attempt === retries), taken to hold on no attempt *)
IsLastAttemptNever(attempt, retries) == FALSE

(* if (attempt === retries) *)
IsLastAttempt(attempt, retries) == attempt = retries

(* for (let attempt = 1; ...) { try { return await operation(); *)
SafeExecuteBegins ==
    /\ safeCall.pc \in {"idle", "returned", "threw"}
    /\ safeCall.calls < MaxSafeCalls
    /\ safeCall' = [NoCall EXCEPT !.pc = "operation", !.attempt = 1, !.invoked = 1,
                              !.calls = safeCall.calls + 1]
    /\ UNCHANGED <<now, errorCount, lastErrorReset, recoveries, outsideSafe>>

(* operation() settles: return its value, or the catch block *)
OperationSettles(fulfilled) ==
    /\ safeCall.pc = "operation"
    /\ IF fulfilled
       THEN /\ safeCall' = [safeCall EXCEPT !.pc = "returned", !.result = "value"]
            /\ UNCHANGED <<errorCount, lastErrorReset, recoveries>>
       ELSE IF IsLastAttempt(safeCall.attempt, maxRetries)
       THEN LET e == HandleError(errorCount, lastErrorReset, now, isRunning, FALSE)
            IN /\ errorCount' = e.errorCount
               /\ lastErrorReset' = e.lastErrorReset
               /\ recoveries' = recoveries + (IF e.recover THEN 1 ELSE 0)
               /\ safeCall' = [safeCall EXCEPT !.failed = @ + 1, !.handled = @ + 1,
                                       !.proceed = e.proceed,
                                       !.pc = IF e.proceed THEN "returned" ELSE "threw",
                                       !.result = IF e.proceed THEN "null" ELSE "error"]
       ELSE /\ safeCall' = [safeCall EXCEPT !.failed = @ + 1, !.pc = "delay"]
            /\ UNCHANGED <<errorCount, lastErrorReset, recoveries>>
    /\ UNCHANGED <<now, outsideSafe>>

(* await new Promise(resolve => setTimeout(resolve, this.retryDelay * attempt)); *)
(* attempt++; attempt <= retries                                                 *)
RetryDelayOver ==
    /\ safeCall.pc = "delay"
    /\ now' = now + retryDelay * safeCall.attempt
    /\ safeCall' = IF safeCall.attempt + 1 <= maxRetries
               THEN [safeCall EXCEPT !.pc = "operation", !.attempt = @ + 1, !.invoked = @ + 1]
               ELSE [safeCall EXCEPT !.pc = "returned", !.attempt = @ + 1, !.result = "undefined"]
    /\ UNCHANGED <<errorCount, lastErrorReset, recoveries, outsideSafe>>

NextSafe ==
    \/ SafeExecuteBegins
    \/ \E fulfilled \in BOOLEAN : OperationSettles(fulfilled)
    \/ RetryDelayOver

SpecSafe == InitCmd /\ [][NextSafe]_vars

(* C27: safeExecute invokes its operation at most 3 times; it returns the  *)
(* result of the first attempt that succeeds and makes no attempt after    *)
(* it; when all 3 attempts have failed it has called handleError exactly   *)
(* once, and it returns null if handleError returned true and otherwise    *)
(* throws the error; before that it has not called handleError.            *)
C27_AtMostThreeAttempts ==
    /\ safeCall.invoked <= 3
    /\ safeCall.pc \in {"returned", "threw"} =>
          IF safeCall.failed < safeCall.invoked
          THEN safeCall.pc = "returned" /\ safeCall.result = "value" /\ safeCall.handled = 0
               /\ safeCall.invoked = safeCall.failed + 1
          ELSE /\ safeCall.failed = 3
               /\ safeCall.handled = 1
               /\ IF safeCall.proceed THEN safeCall.pc = "returned" /\ safeCall.result = "null"
                                  ELSE safeCall.pc = "threw" /\ safeCall.result = "error"
    /\ safeCall.pc \in {"operation", "delay"} => safeCall.handled = 0

(* C27, witness: a call whose 3 attempts failed has thrown, handleError    *)
(* having been called once with the error count above maxErrors            *)
C27_ThrewAfterThree ==
    /\ safeCall.pc = "threw"
    /\ safeCall.invoked = 3
    /\ safeCall.handled = 1
    /\ errorCount > maxErrors

----------------------------------------------------------------------------
(* getStatus() *)
getStatus ==
    [running |-> isRunning,
     autoTranslateUsers |-> autoTranslateUsers,
     cacheSize |-> Len(translationCache),
     errors |-> errorCount,
     operations |-> [active |-> Len(activeOperations), queued |-> Len(operationQueue)]]

(* The window that the last reset opened has ended *)
WindowEnded == now - lastErrorReset > errorResetInterval

(* C28, first half: a handled error processed more than 10 minutes after   *)
(* the last reset leaves the counter at 0, whatever its value was          *)
C28_ResetRule == ErrorStep /\ WindowEnded => errorCount' = 0

C28_ResetOnLateError == [][C28_ResetRule]_vars

(* C28: the error counter is reset to zero once 10 minutes have elapsed    *)
(* since the last reset, regardless of its value: a handled error that is  *)
(* processed more than 10 minutes after the last reset leaves the counter  *)
(* at 0, and the count reported by getStatus never includes errors of a    *)
(* window that has ended.                                                  *)
C28_ResetAfterTenMinutes ==
    /\ [][C28_ResetRule]_vars
    /\ [](WindowEnded => getStatus.errors = 0)

----------------------------------------------------------------------------
(* SpecRecover: the recovery path.  A client emits 'error' events, other   *)
(* handled errors reach handleError from safeExecute, and every call of    *)
(* handleCriticalError runs from its chat notice over reconnect() to       *)
(* start(), and to stop() when that fails.  `client` is the state of the   *)
(* object in this.client: "connected", "connecting" (created by start(),   *)
(* connect() pending), "failed" (connect() rejected) or "null".  A recovery *)
(* is a record: pc, where it is; startFailed, whether its start() threw;   *)
(* mine, whether this.client is still the client its start() created;      *)
(* lostDuring, whether a 'disconnected' event came while its start()       *)
(* awaits connect(); by, who made the call (SpecSession also keeps the     *)
(* shell's call of stop() in `recs`).                                      *)
(* Chat messages are left out; the greeting sent on 'connected' succeeds.   *)

MaxRecoveries == 2      \* SpecRecover starts no further recovery after this many
MaxClientErrors == 3    \* 'error' events in one behaviour of SpecRecover
ReconnectDelay == 5000  \* setTimeout(resolve, 5000)

outsideRec == <<immediates, inHandler, nextSeq, skipped, ticks, rateVars, trVars, errVars, shellVars,
                svcVars, detVars, callVars, safeVars, uiVars, autoTranslateUsers, op, translatorCalls,
                sendLog, trip>>

stopTouched == <<operationQueue, activeOperations, settingsFile, stopPc, stopSaw>>

Rec(at) == [pc |-> at, startFailed |-> FALSE, mine |-> FALSE, lostDuring |-> FALSE,
            by |-> "recovery"]

(* this.client is assigned: no recovery's client is in it any more *)
Disown(rs) == [k \in DOMAIN rs |-> [rs[k] EXCEPT !.mine = FALSE]]

(* client.disconnect(): a client with a socket closes it and will emit *)
(* 'disconnected'                                                      *)
Disconnect(c, cl) == IF c \in {"connected", "connecting"} THEN cl + 1 ELSE cl

(* reconnect(), lines 98-103: up to the 5-second wait *)
ReconnectBegins(S) ==
    [recs |-> Disown(S.recs), client |-> "null",
     closing |-> IF S.client = "null" THEN S.closing ELSE Disconnect(S.client, S.closing)]

(* handleCriticalError(error, context), up to its first await: a new      *)
(* recovery that awaits its chat notice, or the 5-second wait of reconnect *)
HandleCriticalError(S, running) ==
    IF S.client # "null" /\ running
    THEN [S EXCEPT !.recs = Append(@, Rec("notice"))]
    ELSE LET R == ReconnectBegins(S)
         IN [R EXCEPT !.recs = Append(@, Rec("delay"))]

(* The outcomes of sendMessage for the notice: sent at once, or failed on  *)
(* all attempts                                                            *)
NoticeFailures == {0, maxRetries}

(* stop() as called by the catch block of recovery `i`, up to its first    *)
(* await: the whole of it without a client, else sendMessage(farewell)     *)
StopBeginsIn(i, S) ==
    IF S.client = "null"
    THEN /\ StopTail
         /\ recs' = [S.recs EXCEPT ![i].pc = "done"]
         /\ closing' = S.closing
    ELSE /\ recs' = [S.recs EXCEPT ![i].pc = "farewell"]
         /\ client' = S.client
         /\ closing' = S.closing
         /\ UNCHANGED <<isRunning, stopTouched>>

(* handleCriticalError, catch block of recovery `i`: if (this.isRunning) await this.stop() *)
CatchIn(i, S) ==
    IF isRunning
    THEN StopBeginsIn(i, S)
    ELSE /\ recs' = [S.recs EXCEPT ![i].pc = "done"]
         /\ client' = S.client
         /\ closing' = S.closing
         /\ UNCHANGED <<isRunning, stopTouched>>

(* client.on('error'): handleError(error, 'twitch_connection', true) *)
ClientError ==
    LET e == HandleError(errorCount, lastErrorReset, now, isRunning, TRUE)
        S == [recs |-> recs, client |-> client, closing |-> closing]
        T == IF e.recover THEN HandleCriticalError(S, isRunning) ELSE S
    IN /\ Len(eventLog) < MaxClientErrors
       /\ e.recover => Len(recs) < MaxRecoveries
       /\ errorCount' = e.errorCount
       /\ lastErrorReset' = e.lastErrorReset
       /\ recoveries' = recoveries + (IF e.recover THEN 1 ELSE 0)
       /\ recs' = T.recs
       /\ client' = T.client
       /\ closing' = T.closing
       /\ eventLog' = Append(eventLog, [running |-> isRunning, count |-> errorCount,
                                        started |-> Len(T.recs) > Len(recs)])
       /\ UNCHANGED <<now, isRunning, stopTouched, outsideRec>>

(* safeExecute of some other operation, last attempt: handleError(error,    *)
(* context).  These errors come before the first recovery only; later ones *)
(* are those of the notice and of the farewell message.                    *)
HandledError ==
    LET e == HandleError(errorCount, lastErrorReset, now, isRunning, FALSE)
        S == [recs |-> recs, client |-> client, closing |-> closing]
        T == IF e.recover THEN HandleCriticalError(S, isRunning) ELSE S
    IN /\ errorCount <= maxErrors
       /\ recs = <<>>
       /\ e.recover => Len(recs) < MaxRecoveries
       /\ errorCount' = e.errorCount
       /\ lastErrorReset' = e.lastErrorReset
       /\ recoveries' = recoveries + (IF e.recover THEN 1 ELSE 0)
       /\ recs' = T.recs
       /\ client' = T.client
       /\ closing' = T.closing
       /\ UNCHANGED <<now, isRunning, eventLog, stopTouched, outsideRec>>

(* Recovery `i`: sendMessage(notice) ends after `failures` failed attempts; *)
(* then reconnect() up to its wait, or the catch block                      *)
NoticeSaid(i, failures) ==
    /\ i \in DOMAIN recs
    /\ recs[i].pc = "notice"
    /\ failures < maxRetries => client = "connected"
    /\ now' = now + RetryWait(failures)
    /\ LET failed == failures = maxRetries
           e == HandleError(errorCount, lastErrorReset, now', isRunning, FALSE)
           S == [recs |-> recs, client |-> client, closing |-> closing]
           T == IF failed /\ e.recover THEN HandleCriticalError(S, isRunning) ELSE S
           R == ReconnectBegins(T)
       IN /\ failed /\ e.recover => Len(recs) < MaxRecoveries
          /\ errorCount' = IF failed THEN e.errorCount ELSE errorCount
          /\ lastErrorReset' = IF failed THEN e.lastErrorReset ELSE lastErrorReset
          /\ recoveries' = recoveries + (IF failed /\ e.recover THEN 1 ELSE 0)
          /\ IF failed /\ ~e.proceed
             THEN CatchIn(i, T)
             ELSE /\ recs' = [R.recs EXCEPT ![i].pc = "delay"]
                  /\ client' = R.client
                  /\ closing' = R.closing
                  /\ UNCHANGED <<isRunning, stopTouched>>
    /\ UNCHANGED <<eventLog, outsideRec>>

(* Recovery `i`: the 5 seconds are over; start() up to await this.client.connect() *)
DelayOver(i) ==
    /\ i \in DOMAIN recs
    /\ recs[i].pc = "delay"
    /\ now' = now + ReconnectDelay
    /\ recs' = [Disown(recs) EXCEPT ![i].pc = "connect", ![i].mine = TRUE]
    /\ client' = "connecting"
    /\ UNCHANGED <<isRunning, errorCount, lastErrorReset, recoveries, closing, eventLog, stopTouched,
                   outsideRec>>

(* Recovery `i`: connect() settles; start() sets isRunning and returns, or *)
(* throws into the catch block of handleCriticalError                      *)
ConnectSettles(i, connected) ==
    /\ i \in DOMAIN recs
    /\ recs[i].pc = "connect"
    /\ IF connected
       THEN /\ isRunning' = TRUE
            /\ client' = IF recs[i].mine THEN "connected" ELSE client
            /\ recs' = [recs EXCEPT ![i].pc = "done", ![i].lostDuring = FALSE, ![i].mine = FALSE]
            /\ UNCHANGED <<closing, stopTouched>>
       ELSE CatchIn(i, [recs |-> [recs EXCEPT ![i].startFailed = TRUE, ![i].lostDuring = FALSE,
                                                ![i].mine = FALSE],
                        client |-> IF recs[i].mine THEN "failed" ELSE client,
                        closing |-> closing])
    /\ UNCHANGED <<now, errorCount, lastErrorReset, recoveries, eventLog, outsideRec>>

(* Recovery `i`, in stop(): sendMessage(farewell) ends after `failures`    *)
(* failed attempts; then the rest of stop(), unless sendMessage threw or   *)
(* this.client is null by now (this.client.disconnect() throws)            *)
FarewellSaid(i, failures) ==
    /\ i \in DOMAIN recs
    /\ recs[i].pc = "farewell"
    /\ failures < maxRetries => client = "connected"
    /\ now' = now + RetryWait(failures)
    /\ LET failed == failures = maxRetries
           e == HandleError(errorCount, lastErrorReset, now', isRunning, FALSE)
           S == [recs |-> recs, client |-> client, closing |-> closing]
           T == IF failed /\ e.recover THEN HandleCriticalError(S, isRunning) ELSE S
       IN /\ failed /\ e.recover => Len(recs) < MaxRecoveries
          /\ errorCount' = IF failed THEN e.errorCount ELSE errorCount
          /\ lastErrorReset' = IF failed THEN e.lastErrorReset ELSE lastErrorReset
          /\ recoveries' = recoveries + (IF failed /\ e.recover THEN 1 ELSE 0)
          /\ IF (failed /\ ~e.proceed) \/ T.client = "null"
             THEN /\ recs' = [T.recs EXCEPT ![i].pc = "threw"]
                  /\ client' = T.client
                  /\ closing' = T.closing
                  /\ UNCHANGED <<isRunning, stopTouched>>
             ELSE /\ StopTail
                  /\ recs' = [Disown(T.recs) EXCEPT ![i].pc = "done"]
                  /\ closing' = Disconnect(T.client, T.closing)
    /\ UNCHANGED <<eventLog, outsideRec>>

(* client.on('disconnected'): this.isRunning = false *)
AfterDisconnected(running) == FALSE

(* The calls of start() that await connect() have seen a 'disconnected' event *)
SeenBy(rs) ==
    [k \in DOMAIN rs |-> IF rs[k].pc = "connect" THEN [rs[k] EXCEPT !.lostDuring = TRUE] ELSE rs[k]]

(* client.on('disconnected') of a client that disconnect() was called on *)
DisconnectedEvent ==
    /\ closing > 0
    /\ closing' = closing - 1
    /\ isRunning' = AfterDisconnected(isRunning)
    /\ recs' = SeenBy(recs)
    /\ UNCHANGED <<now, client, errorCount, lastErrorReset, recoveries, eventLog, stopTouched,
                   outsideRec>>

NextRecover ==
    \/ ClientError
    \/ HandledError
    \/ \E i \in 1..MaxRecoveries, failures \in NoticeFailures : NoticeSaid(i, failures)
    \/ \E i \in 1..MaxRecoveries : DelayOver(i)
    \/ \E i \in 1..MaxRecoveries, connected \in BOOLEAN : ConnectSettles(i, connected)
    \/ \E i \in 1..MaxRecoveries, failures \in FarewellFailures : FarewellSaid(i, failures)
    \/ DisconnectedEvent

SpecRecover == InitCmd /\ [][NextRecover]_vars

(* C29: every 'error' event of a client received while the bot is running  *)
(* has started a recovery, whatever the error count was, and no 'error'    *)
(* event received while the bot is not running has started one.            *)
C29_ErrorEventRecovers ==
    \A k \in DOMAIN eventLog : eventLog[k].started = eventLog[k].running

(* C29, witness: an 'error' event met a running bot with no error counted  *)
(* and started a recovery, and a later one met a stopped bot               *)
C29_RunningAndNot ==
    \E j, k \in DOMAIN eventLog :
        /\ j < k
        /\ eventLog[j].running /\ eventLog[j].count = 0 /\ eventLog[j].started
        /\ ~eventLog[k].running /\ ~eventLog[k].started

----------------------------------------------------------------------------
(* Recovery `i` ends on this step, its start() having thrown *)
FailedRecoveryEnds(i) ==
    /\ i \in DOMAIN recs
    /\ recs[i].pc \notin {"done", "threw"}
    /\ recs'[i].pc \in {"done", "threw"}
    /\ recs'[i].startFailed

(* C30: when a recovery whose reconnection failed (start() threw after the *)
(* 5-second wait) ends, the bot is stopped: isRunning is false, this.client *)
(* is null and the settings file holds the membership set, whether or not  *)
(* a 'disconnected' event was delivered in between.                        *)
C30_Stopped ==
    \A i \in 1..MaxRecoveries :
        FailedRecoveryEnds(i)
        => /\ ~isRunning'
           /\ client' = "null"
           /\ settingsFile' = SavedFile(autoTranslateUsers')

C30_StoppedAfterFailedReconnect == [][C30_Stopped]_vars

----------------------------------------------------------------------------
(* SpecSession: SpecRecover together with the loss of the connection (the  *)
(* client emits 'disconnected' by itself; created with reconnect: true, it *)
(* may connect again and emit 'connected', state "lost" in between) and    *)
(* with one call of stop() by the shell (stop-bot), kept in `recs` as an    *)
(* entry that begins at the farewell message.  No other operation fails   *)
(* for good.                                                               *)

MaxSessionErrors == 2   \* 'error' events in one behaviour of SpecSession

(* client.on('disconnected') of the connected client *)
ConnectionLost ==
    /\ client = "connected"
    /\ client' = "lost"
    /\ isRunning' = AfterDisconnected(isRunning)
    /\ recs' = SeenBy(recs)
    /\ UNCHANGED <<now, errorCount, lastErrorReset, recoveries, closing, eventLog, stopTouched,
                   outsideRec>>

(* client.on('connected') after the client connected again by itself: the *)
(* greeting is sent                                                       *)
Reconnected ==
    /\ client = "lost"
    /\ client' = "connected"
    /\ UNCHANGED <<now, isRunning, errorCount, lastErrorReset, recoveries, recs, closing, eventLog,
                   stopTouched, outsideRec>>

(* stop-bot: await bot.stop(), up to its first await *)
ShellStop ==
    /\ Len(recs) < MaxRecoveries
    /\ \A k \in DOMAIN recs : recs[k].by # "shell"
    /\ StopBeginsIn(Len(recs) + 1,
                    [recs |-> Append(recs, [Rec("farewell") EXCEPT !.by = "shell"]),
                     client |-> client, closing |-> closing])
    /\ UNCHANGED <<now, errorCount, lastErrorReset, recoveries, eventLog, outsideRec>>

(* client.on('error') *)
SessionError == Len(eventLog) < MaxSessionErrors /\ ClientError

NextSession ==
    \/ SessionError
    \/ \E i \in 1..MaxRecoveries, failures \in NoticeFailures : NoticeSaid(i, failures)
    \/ \E i \in 1..MaxRecoveries : DelayOver(i)
    \/ \E i \in 1..MaxRecoveries, connected \in BOOLEAN : ConnectSettles(i, connected)
    \/ \E i \in 1..MaxRecoveries, failures \in FarewellFailures : FarewellSaid(i, failures)
    \/ DisconnectedEvent
    \/ ConnectionLost
    \/ Reconnected
    \/ ShellStop

SpecSession == InitCmd /\ [][NextSession]_vars

(* A 'disconnected' event is delivered on this step *)
DisconnectedStep == closing' < closing \/ (client = "connected" /\ client' = "lost")

(* A call of start() sets isRunning on this step *)
StartCompletes(i) ==
    /\ i \in DOMAIN recs
    /\ recs[i].pc = "connect"
    /\ recs'[i].pc = "done"
    /\ ~recs'[i].startFailed

(* C31, as stated: a 'disconnected' event sets isRunning to false, and     *)
(* afterwards isRunning stays false until start() is called again: it      *)
(* becomes true only through a call of start() made after the event.       *)
C31_FalseUntilStartCalled ==
    [][/\ DisconnectedStep => ~isRunning'
       /\ ~isRunning /\ isRunning'
          => \E i \in 1..MaxRecoveries : StartCompletes(i) /\ ~recs[i].lostDuring]_vars

(* What does hold of the 'disconnected' event: it sets isRunning to false   *)
(* and starts no recovery; isRunning becomes true only when some call of   *)
(* start() completes its connect(), and the client connecting again by     *)
(* itself leaves it false.                                                 *)
FalseUntilStartCompletes ==
    [][/\ DisconnectedStep => ~isRunning' /\ Len(recs') = Len(recs)
       /\ ~isRunning /\ isRunning' => \E i \in 1..MaxRecoveries : StartCompletes(i)]_vars

(* The connection was lost, the client has connected again by itself, and  *)
(* isRunning is false with no recovery and no stop() made                  *)
ConnectedNotRunning ==
    /\ client = "connected"
    /\ ~isRunning
    /\ recs = <<>>
    /\ closing = 0

----------------------------------------------------------------------------
(* A stop-bot request passes the test of line 221 on this step, and one    *)
(* ends on this step for instance i                                        *)
StopBotAdmitted == \E i \in DOMAIN instances : instances'[i].stops > instances[i].stops

StopBotEnds(i) == i \in DOMAIN instances /\ instances'[i].stops < instances[i].stops

StopBotRefused == reply' = Rejected("stop-bot", "not running") /\ reply' # reply

(* C32: stop-bot is rejected, changing nothing, when no bot is marked       *)
(* running, and only then; when it returns success the shell holds no      *)
(* instance, botRunning is false and exactly one "bot-stopped" event has   *)
(* been pushed; when stop() of the Bot Core fails, stop-bot reports        *)
(* failure and the shell still holds that instance, marked running.        *)
C32_Step ==
    /\ StopBotRefused
       => (~botRunning \/ bot = 0) /\ UNCHANGED <<bot, botRunning, instances, envFile, processEnv>>
    /\ StopBotAdmitted => botRunning /\ bot # 0
    /\ \A i \in 1..MaxInstances :
          StopBotEnds(i)
          => IF reply'.success
             THEN bot' = 0 /\ ~botRunning' /\ reply'.pushed = <<"bot-stopped">>
             ELSE reply'.req = "stop-bot" /\ bot' = i /\ botRunning'

C32_StopBot == [][C32_Step]_vars

----------------------------------------------------------------------------
(* C33: once a call of stop() has completed on the instance (the shell     *)
(* calls start() on a new instance only), the instance is never running    *)
(* again and never holds a client again, also when a recovery was under    *)
(* way while stop() ran.                                                   *)
C33_StoppedForGood == stopPc = "returned" => ~isRunning /\ client = "null"

----------------------------------------------------------------------------
(* The recoveries under way *)
InProgress == {i \in DOMAIN recs : recs[i].by = "recovery" /\ recs[i].pc \notin {"done", "threw"}}

(* C34: the instance never has two recoveries in progress at once, and     *)
(* never more than one client with registered handlers alive: start()      *)
(* creates a client only when this.client holds none (a client it held     *)
(* went through disconnect() before).                                      *)
StartCreatesClient == \E i \in DOMAIN recs : recs[i].pc = "delay" /\ recs'[i].pc = "connect"

C34_OneClientOneRecovery ==
    [][/\ Cardinality(InProgress') <= 1
       /\ StartCreatesClient => client = "null"]_vars

----------------------------------------------------------------------------
(* SpecUi: the shell's bot session as the main page sees it.  start-bot    *)
(* and stop-bot requests as in SpecShell (with valid settings saved), the  *)
(* 'disconnected' event of an instance's client, and the status poll:      *)
(* get-bot-status in the shell, then updateBotStatus sets the controls.    *)

(* { ...a, ...b }: the keys of b replace those of a *)
Spread(a, b) == [k \in DOMAIN a \cup DOMAIN b |-> IF k \in DOMAIN b THEN b[k] ELSE a[k]]

(* bot.getStatus() of instance i, its first key *)
InstanceStatus(i) == [running |-> instances[i].isRunning]

StoppedStatus == [running |-> FALSE]

(* No start-bot or stop-bot request is awaiting the Bot Core *)
Quiet == \A i \in DOMAIN instances : instances[i].start # "awaiting" /\ instances[i].stops = 0

(* client.on('disconnected') of instance i: this.isRunning = false *)
InstanceDisconnected(i) ==
    /\ i \in DOMAIN instances
    /\ instances[i].isRunning
    /\ instances' = [instances EXCEPT ![i].isRunning = FALSE]
    /\ UNCHANGED <<envFile, processEnv, bot, botRunning, reply, lastSaved, poll, outsideShell>>

outsideUi == <<now, opsVars, rateVars, cmdVars, trVars, errVars, stopVars, shellVars, svcVars,
               detVars, callVars, safeVars, recVars>>

(* ipcMain.handle('get-bot-status'); `quiet` and `marked` note what the    *)
(* shell was in when it answered                                           *)
GetBotStatus ==
    /\ poll.status = NoStatus
    /\ poll' = [poll EXCEPT !.status =
                   [running |-> (IF bot # 0 /\ botRunning
                                 THEN Spread([running |-> botRunning], InstanceStatus(bot))
                                 ELSE StoppedStatus).running,
                    quiet |-> Quiet, marked |-> botRunning]]
    /\ UNCHANGED outsideUi

(* updateBotStatus, after the await: the two controls *)
UpdateBotStatus ==
    /\ poll.status # NoStatus
    /\ poll' = [status |-> NoStatus,
                startDisabled |-> poll.status.running,
                stopDisabled |-> ~poll.status.running]
    /\ UNCHANGED outsideUi

NextUi ==
    \/ SaveSettings(GoodSettings)
    \/ StartBot
    \/ \E i \in 1..Len(instances), ok \in BOOLEAN : StartSettles(i, ok)
    \/ StopBot
    \/ \E i \in 1..Len(instances), ok \in BOOLEAN : StopSettles(i, ok)
    \/ \E i \in 1..MaxInstances : InstanceDisconnected(i)
    \/ GetBotStatus
    \/ UpdateBotStatus

SpecUi == InitOps /\ [][NextUi]_vars

(* A status poll completes on this step, no request having been in flight  *)
(* from the shell's answer on                                              *)
QuietPollCompletes ==
    /\ poll.status # NoStatus
    /\ poll'.status = NoStatus
    /\ poll.status.quiet
    /\ poll.status.marked = botRunning
    /\ Quiet

(* C35: when the shell marks a bot as running and no start or stop request *)
(* is in flight, a completed status poll leaves the stop control enabled;  *)
(* and when it leaves the start control enabled, botRunning is false, so   *)
(* that start-bot is not rejected as already running.                      *)
C35_Step ==
    QuietPollCompletes
    => /\ botRunning => poll'.stopDisabled = FALSE
       /\ poll'.startDisabled = FALSE => ~botRunning

C35_StopAlwaysPossible == [][C35_Step]_vars

----------------------------------------------------------------------------
(* SpecSettings: check-settings, save-settings and start-bot over a        *)
(* credentials file that was written by hand.  Each of the four variables has no line in the     *)
(* file, or a line with an empty value, with a value one character short   *)
(* of the minimum, or with a value of the minimum length; the line of the  *)
(* token may also be commented out.                                        *)

(* str.includes(part) *)
Includes(str, part) ==
    \E i \in 1..(Len(str) - Len(part) + 1) : SubSeq(str, i, i + Len(part) - 1) = part

requiredVars == <<"TWITCH_ACCESS_TOKEN", "TWITCH_CLIENT_ID", "TWITCH_NICKNAME", "TWITCH_CHANNEL">>

(* ipcMain.handle('check-settings'): what it returns for the file *)
CheckSettingsResult(file) ==
    IF file = NoEnvFile THEN [exists |-> FALSE, missing |-> requiredVars]
    ELSE LET missing == SelectSeq(requiredVars, LAMBDA varName : ~Includes(file, <<varName, "=">>))
         IN [exists |-> Len(missing) = 0, missing |-> missing]

NoLine == <<"no line">>

EnvLine(varName, value) == IF value = NoLine THEN <<>> ELSE <<varName, "=">> \o value \o <<"LF">>

ValuesOf(c, min) == {NoLine, <<>>, Rep(c, min - 1), Rep(c, min)}

EnvFiles ==
    {NoEnvFile} \cup
    { hash \o EnvLine("TWITCH_ACCESS_TOKEN", t) \o EnvLine("TWITCH_CLIENT_ID", c)
           \o EnvLine("TWITCH_NICKNAME", n) \o EnvLine("TWITCH_CHANNEL", x) :
        hash \in {<<>>, <<"#">>},
        t \in ValuesOf("a", MinTokenLength), c \in ValuesOf("c", MinClientIdLength),
        n \in ValuesOf("n", MinNicknameLength), x \in ValuesOf("x", MinChannelLength) }

InitSettings ==
    /\ now = 0
    /\ InitRate /\ InitOpsVars /\ InitBot(NoFile)
    /\ InitTr /\ InitErr /\ InitStop /\ InitSvc /\ InitDet /\ InitCall /\ InitSafe /\ InitRec /\ InitUi
    /\ envFile \in EnvFiles
    /\ processEnv = NoSettings
    /\ bot = 0
    /\ botRunning = FALSE
    /\ instances = <<>>
    /\ reply = NoReply
    /\ lastSaved = NoSettings

CheckSettings ==
    /\ reply' = [req |-> "check-settings", result |-> CheckSettingsResult(envFile)]
    /\ UNCHANGED <<envFile, lastSaved, processEnv, bot, botRunning, instances, outsideShell>>

NextSettings ==
    \/ CheckSettings
    \/ \E settings \in SettingsInputs : SaveSettings(settings)
    \/ StartBot
    \/ \E i \in 1..Len(instances), ok \in BOOLEAN : StartSettles(i, ok)

SpecSettings == InitSettings /\ [][NextSettings]_vars

ConfigurationReasons == {"settings not found", "missing settings", "invalid format"}

(* C36: whenever check-settings reports that the settings exist, a         *)
(* start-bot request made with the same credentials file is not rejected   *)
(* for a configuration reason (settings not found, missing settings,       *)
(* invalid settings format), also when a key has an empty or a too-short   *)
(* value.                                                                  *)
C36_SameNotionOfConfigured ==
    reply.req = "start-bot" /\ ~reply.success /\ reply.error \in ConfigurationReasons
    => ~CheckSettingsResult(envFile).exists

(* A file in which each variable has a line with a value of at least the   *)
(* minimum length is accepted by both operations (before any save)        *)
WellFormedAccepted ==
    (envFile = EnvContent(GoodSettings) \o <<"LF">> /\ lastSaved = NoSettings)
    => /\ CheckSettingsResult(envFile).exists
       /\ ~(reply.req = "start-bot" /\ ~reply.success /\ reply.error \in ConfigurationReasons)

----------------------------------------------------------------------------
(* Claims about the language pair of an auto-translation (SpecCmd) *)

(* translateToRussian(text), translateToEnglish(text): the arguments they  *)
(* pass to translate(text, sourceLang, targetLang)                         *)
TranslateToRussian(text) == [text |-> text, sourceLang |-> "en", targetLang |-> "ru"]
TranslateToEnglish(text) == [text |-> text, sourceLang |-> "ru", targetLang |-> "en"]

(* translate: `sourceLang || this.detectLanguage(processedText)` is the    *)
(* `from` of the request; both methods give a source language              *)
SentSource(fn, text) ==
    IF fn = "translateToRussian" THEN TranslateToRussian(text).sourceLang
    ELSE TranslateToEnglish(text).sourceLang

(* handleAutoTranslate: which branch of lines 304-337 a text takes, named  *)
(* by the language its comment and log line give ("Russian predominates",  *)
(* "English predominates", "Spanish predominates", "Mixed language")       *)
BranchTaken(content) ==
    LET totalChars == content.lat + content.cyr
    IN IF PercentOver(content.cyr, totalChars, 50) /\ PercentUnder(content.lat, totalChars, 50)
       THEN "ru"
       ELSE IF /\ PercentOver(content.lat, totalChars, 50)
               /\ PercentUnder(content.cyr, totalChars, 50)
               /\ PercentUnder(content.spa, totalChars, 10)
       THEN "en"
       ELSE IF PercentOver(content.spa, totalChars, 10)
       THEN "es"
       ELSE "mixed"

(* C37: in the auto-translate flow the source language sent to the        *)
(* translation API is that of the branch taken: "ru" for Cyrillic-dominant *)
(* text, "en" for Latin-dominant text, "es" for text taken through the     *)
(* Spanish branch.                                                         *)
C37_SourceOfBranch ==
    (PlainMessage /\ FromMember) =>
        \A i \in DOMAIN translatorCalls :
            SentSource(translatorCalls[i].fn, translatorCalls[i].text)
                = BranchTaken(translatorCalls[i].text)

(* For the Cyrillic and the Latin branch the source language is that of    *)
(* the branch                                                              *)
SourceOfLetterBranches ==
    (PlainMessage /\ FromMember) =>
        \A i \in DOMAIN translatorCalls :
            BranchTaken(translatorCalls[i].text) \in {"ru", "en"} =>
                SentSource(translatorCalls[i].fn, translatorCalls[i].text)
                    = BranchTaken(translatorCalls[i].text)

(* C38: for every message of at most 300 characters from a member for      *)
(* which shouldTranslateForAutoUser returns true, every run of             *)
(* handleAutoTranslate makes exactly one translation attempt: no text that *)
(* passes the gate, Latin-dominant text with exactly 10% Spanish           *)
(* characters included, falls through to the mixed-language skip.          *)
C38_GateMeansOneAttempt ==
    (/\ PlainMessage /\ FromMember
     /\ Length(op.messageObj.content) <= MaxAutoLength
     /\ ShouldTranslateForAutoUser(Trim(op.messageObj.content)))
    => /\ Len(translatorCalls) = op.attempt
       /\ BranchTaken(Trim(op.messageObj.content)) # "mixed"

(* Away from exactly 10% Spanish characters, a text that passes the gate   *)
(* is translated once in every run                                         *)
GateMeansOneAttemptOffTenth ==
    (/\ PlainMessage /\ FromMember
     /\ Length(op.messageObj.content) <= MaxAutoLength
     /\ ShouldTranslateForAutoUser(Trim(op.messageObj.content))
     /\ 10 * Trim(op.messageObj.content).spa # Trim(op.messageObj.content).lat + Trim(op.messageObj.content).cyr)
    => Len(translatorCalls) = op.attempt

----------------------------------------------------------------------------
(* Claims about the statistics of the Translation Service (SpecTranslate) *)

(* getStats(): the counters and cacheHitRate, (cacheHits / translations) * *)
(* 100, kept as the fraction num / den; averageTime and cacheSize are left *)
(* out                                                                     *)
getStats ==
    [translations |-> stats.translations,
     cacheHits |-> stats.cacheHits,
     errors |-> stats.errors,
     cacheEvictions |-> stats.cacheEvictions,
     cacheHitRate |-> IF stats.translations > 0
                      THEN [num |-> stats.cacheHits * 100, den |-> stats.translations]
                      ELSE [num |-> 0, den |-> 1]]

(* Every call of translate() made so far has returned *)
AllReturned == \A n \in 1..Len(callLog) : callLog[n].result # "pending"

(* The calls that returned an absent result *)
ReturnedAbsent == {n \in 1..Len(callLog) : callLog[n].result = "null"}

(* C39: after any sequence of translate calls the error count of getStats  *)
(* equals the number of translate calls that returned an absent result:    *)
(* each failure is counted exactly once.                                   *)
C39_ErrorsCountFailures == AllReturned => getStats.errors = Cardinality(ReturnedAbsent)

(* The error count is never below the number of absent results *)
ErrorsAtLeastFailures == getStats.errors >= Cardinality(ReturnedAbsent)

(* C40: after any sequence of translate calls the cache hit rate of        *)
(* getStats is a percentage between 0 and 100 inclusive.                   *)
C40_HitRateIsPercentage ==
    /\ getStats.cacheHitRate.num >= 0
    /\ getStats.cacheHitRate.num <= 100 * getStats.cacheHitRate.den

(* The hit rate is never negative, and it is 0 while nothing was translated *)
HitRateNotNegative ==
    /\ getStats.cacheHitRate.num >= 0
    /\ stats.translations = 0 => getStats.cacheHitRate.num = 0
====
